---- MODULE Spec2Model ----
(***************************************************************************)
(* BORG: a model-aware reverse proxy for OpenAI-compatible backends.       *)
(*                                                                         *)
(* The module models src/src/borg/proxy.py (RoundRobinSet, ProxyService),  *)
(* the reconciliation pass of src/src/borg/k8s_discovery.py and the        *)
(* periodic task of src/src/borg/main.py.                                  *)
(*                                                                         *)
(* Seven specifications share the definitions:                               *)
(*   Spec       the ProxyService registry driven call by call through its  *)
(*              public methods (as tests/test_proxy_service_instances.py   *)
(*              drives it); every call is one step.                        *)
(*   SpecProxy  the running program: request handlers and the reconciler   *)
(*              as asyncio tasks over one event loop, with the registry    *)
(*              lock, split at the places where a task can be observed.    *)
(*   SpecRR     one RoundRobinSet bucket over three endpoints, for the     *)
(*              rotation order.                                            *)
(*   SpecStream proxy_request_stream: the exit stack and the aiter()       *)
(*              generator of two streaming requests whose caller may go.   *)
(*   SpecDisc   periodic_update and K8SDiscoveryService.update, selector   *)
(*              by selector and call by call.                              *)
(*   SpecAuth   genkey._make_token and ProxyService.require_auth, with     *)
(*              tokens damaged between minting and presenting.             *)
(*   SpecRoute  ProxyService.proxy request by request: the body and the    *)
(*              headers as received, the path taken, the selection, the    *)
(*              one upstream request and the answer.                       *)
(***************************************************************************)
EXTENDS Integers, Sequences, FiniteSets, TLC

VARIABLES
    instances,  \* ProxyService._instances: dict model -> RoundRobinSet
    picks,      \* history: per model, the endpoints handed out since add or
                \* rmv last ran on its bucket (the last MaxPicks of them)
    touch,      \* history: per model, the last add/rmv run on its bucket
    last,       \* history: the last call made and how it ended
    lock,       \* ProxyService._lock: the task holding it, or "free"
    running,    \* the task the event loop is running, or "none"
    pc,         \* where each task stands
    rq,         \* per request handler: its inputs and what it resolved
    epmap,      \* K8SDiscoveryService._epmap: the stored snapshot
    fresh,      \* update(): the local epmap being applied
    todoRmv,    \* update(): rmv, the entries not yet applied
    todoAdd,    \* update(): add, the entries not yet applied
    gate,       \* the Auth Gate: auth_key, auth_prefix, the token a caller
                \* holds and how the last require_auth call ended
    relay,      \* per streaming request: the AsyncExitStack, the aiter()
                \* generator and the downstream connection
    disc,       \* the K8SDiscoveryService and periodic_update, pass by pass
    route       \* ProxyService.proxy: the request being handled, how far the
                \* handler is and what it answered

regVars == <<instances, picks, touch, last>>

auxVars == <<gate, relay, disc, route>>

progVars == <<lock, running, pc, rq, epmap, fresh, todoRmv, todoAdd, auxVars>>

vars == <<instances, picks, touch, last, lock, running, pc, rq, epmap, fresh,
          todoRmv, todoAdd, gate, relay, disc, route>>

\* ------------------------------------------------------------------ universe
Models == {"m1", "m2"}
Endpoints == {"A", "B", "C"}
\* The keys an endpoint is registered with: its own, and for A also "EMPTY",
\* the placeholder the reconciler registers endpoints with.
KeyChoices(e) == IF e = "A" THEN {"skA", "EMPTY"} ELSE {"sk" \o e}

\* Number of selections remembered per model (history kept for the claims).
MaxPicks == 4

\* ------------------------------------------- Python dict, insertion ordered
\* A dict is the sequence of its [key, val] entries in insertion order.
DictKeys(d) == {d[i].key : i \in 1..Len(d)}

DictHas(d, k) == k \in DictKeys(d)

DictIdx(d, k) == CHOOSE i \in 1..Len(d) : d[i].key = k

DictGet(d, k) == d[DictIdx(d, k)].val

\* d[k] = v : an existing key keeps its place, a new key goes last.
DictSet(d, k, v) ==
    IF DictHas(d, k)
    THEN [d EXCEPT ![DictIdx(d, k)] = [key |-> k, val |-> v]]
    ELSE Append(d, [key |-> k, val |-> v])

\* d.pop(k, None)
DictPop(d, k) == SelectSeq(d, LAMBDA p : p.key # k)

\* ---------------------------------------------------------- RoundRobinSet
\* itertools.cycle over the items of _data: the items in order, then again.
\* live = FALSE is self._cycler = None.
NoCycler == [live |-> FALSE, items |-> <<>>, pos |-> 0]

NewBucket == [data |-> <<>>, cycler |-> NoCycler]

\* _reset_cycle(): self._cycler = cycle(self._data.items()) if self._data
\* else None. A new cycle starts at the first item.
ResetCycleFromLast(data) ==
    IF Len(data) > 0 THEN [live |-> TRUE, items |-> data, pos |-> Len(data) - 1]
                     ELSE NoCycler

ResetCycle(data) ==
    IF Len(data) > 0 THEN [live |-> TRUE, items |-> data, pos |-> 0]
                     ELSE NoCycler

\* add(): self._data[item] = attrs; self._reset_cycle()
RRAddAppend(b, endpoint, apikey) ==
    LET d == Append(b.data, [key |-> endpoint, val |-> [apikey |-> apikey]])
    IN  [data |-> d, cycler |-> ResetCycle(d)]

RRAdd(b, endpoint, apikey) ==
    LET d == DictSet(b.data, endpoint, [apikey |-> apikey])
    IN  [data |-> d, cycler |-> ResetCycle(d)]

RRRmvKeepCycle(b, endpoint) ==
    [data |-> DictPop(b.data, endpoint), cycler |-> b.cycler]

RRRmv(b, endpoint) ==
    LET d == DictPop(b.data, endpoint)
    IN  [data |-> d, cycler |-> ResetCycle(d)]

\* next(): raises RuntimeError when the cycler is None.
RRNextRaises(b) == ~b.cycler.live

RRNextItem(b) == b.cycler.items[b.cycler.pos + 1]

RRAdvanceStuck(b) == b

RRAdvance(b) ==
    [b EXCEPT !.cycler.pos = (b.cycler.pos + 1) % Len(b.cycler.items)]

\* The endpoints of a bucket in insertion order, and as a set.
BucketEndpoints(b) == [i \in 1..Len(b.data) |-> b.data[i].key]

Members(inst, m) ==
    IF DictHas(inst, m) THEN DictKeys(DictGet(inst, m).data) ELSE {}

\* ----------------------------------------------------------- ProxyService
\* Lists of distinct model names (the models argument of add/remove).
ModelLists ==
    {<<>>} \cup {<<m>> : m \in Models}
           \cup {x \in Models \X Models : x[1] # x[2]}

SeqRange(s) == {s[i] : i \in 1..Len(s)}

\* add_instance: for model in models: setdefault(model, RoundRobinSet()).add(...)
RECURSIVE AddInstanceF(_, _, _, _)
AddInstanceF(inst, endpoint, apikey, models) ==
    IF models = <<>> THEN inst
    ELSE LET m == Head(models)
             bucket == IF DictHas(inst, m) THEN DictGet(inst, m) ELSE NewBucket
         IN  AddInstanceF(DictSet(inst, m, RRAdd(bucket, endpoint, apikey)),
                          endpoint, apikey, Tail(models))

\* remove_instance, models a list: for model in models: if model in
\* self._instances: self._instances[model].rmv(endpoint)
RemoveInstanceCreates(inst, endpoint, models) ==
    IF models = <<>> THEN inst
    ELSE DictSet(inst, Head(models),
                 RRRmv(IF DictHas(inst, Head(models))
                       THEN DictGet(inst, Head(models)) ELSE NewBucket,
                       endpoint))

RECURSIVE RemoveInstanceF(_, _, _)
RemoveInstanceF(inst, endpoint, models) ==
    IF models = <<>> THEN inst
    ELSE LET m == Head(models)
             nxt == IF DictHas(inst, m)
                    THEN DictSet(inst, m, RRRmv(DictGet(inst, m), endpoint))
                    ELSE inst
         IN  RemoveInstanceF(nxt, endpoint, Tail(models))

\* Lexicographic order of the model names used here.
ModelRank(m) == CASE m = "m1" -> 1 [] m = "m2" -> 2

\* sorted(keys): insertion sort by rank.
RECURSIVE SortedInsert(_, _)
SortedInsert(s, m) ==
    IF s = <<>> THEN <<m>>
    ELSE IF ModelRank(m) <= ModelRank(Head(s)) THEN <<m>> \o s
    ELSE <<Head(s)>> \o SortedInsert(Tail(s), m)

RECURSIVE SortedKeys(_)
SortedKeys(d) ==
    IF d = <<>> THEN <<>>
    ELSE SortedInsert(SortedKeys(Tail(d)), Head(d).key)

\* list_models: the ids of the "data" rows.
ListModelsUnsorted(inst) == [i \in 1..Len(inst) |-> inst[i].key]

ListModelsF(inst) == SortedKeys(inst)

\* ------------------------------------------------------------ call records
NoCall ==
    [op |-> "init", endpoint |-> "-", model |-> "-", exc |-> "none",
     ret |-> "-", retkey |-> "-", listing |-> <<>>]

Call(op, endpoint, model, exc, ret, retkey, listing) ==
    [op |-> op, endpoint |-> endpoint, model |-> model, exc |-> exc,
     ret |-> ret, retkey |-> retkey, listing |-> listing]

NoTouch == [op |-> "none", endpoint |-> "-"]

\* The history of a model is cut when add or rmv runs on its bucket.
CutPicks(p, touched) == [m \in Models |-> IF m \in touched THEN <<>> ELSE p[m]]

Touched(t, touched, op, e) ==
    [m \in Models |-> IF m \in touched THEN [op |-> op, endpoint |-> e] ELSE t[m]]

Remember(p, m, e) ==
    LET s == Append(p[m], e)
    IN  [p EXCEPT ![m] = IF Len(s) > MaxPicks THEN Tail(s) ELSE s]

\* ------------------------------------------------ the registry, call by call
\* The tasks: the request handlers and the periodic reconciler.
Reqs == {"r1", "r2"}

Tasks == Reqs \cup {"rec"}

NoRequest ==
    [model |-> "-", stream |-> FALSE, inauth |-> "-", ep |-> "-", key |-> "-",
     fwd |-> "-"]

NoSnapshot == [m \in Models |-> {}]

NoTodo == [e \in Endpoints |-> {}]

\* Nothing presented to the Auth Gate, no relay open, no discovery service.
NoGate == [op |-> "-"]

NoRelay == [t \in Reqs |-> [pc |-> "-"]]

NoDisc == [pc |-> "-"]

NoRoute == [pc |-> "-"]

InitProgram ==
    /\ lock = "free"
    /\ running = "none"
    /\ pc = [t \in Tasks |-> IF t = "rec" THEN "sleep" ELSE "idle"]
    /\ rq = [t \in Reqs |-> NoRequest]
    /\ epmap = NoSnapshot
    /\ fresh = NoSnapshot
    /\ todoRmv = NoTodo
    /\ todoAdd = NoTodo

InitAux ==
    /\ gate = NoGate
    /\ relay = NoRelay
    /\ disc = NoDisc
    /\ route = NoRoute

InitRegistry ==
    /\ instances = <<>>
    /\ picks = [m \in Models |-> <<>>]
    /\ touch = [m \in Models |-> NoTouch]
    /\ last = NoCall
    /\ InitProgram

AddInstance(endpoint, apikey, models) ==
    /\ UNCHANGED progVars
    /\ instances' = AddInstanceF(instances, endpoint, apikey, models)
    /\ picks' = CutPicks(picks, SeqRange(models))
    /\ touch' = Touched(touch, SeqRange(models), "add", endpoint)
    /\ last' = Call("add_instance", "-", "-", "none", "-", "-", <<>>)

RemoveInstance(endpoint, models) ==
    /\ UNCHANGED progVars
    /\ instances' = RemoveInstanceF(instances, endpoint, models)
    /\ picks' = CutPicks(picks, SeqRange(models) \cap DictKeys(instances))
    /\ touch' = Touched(touch, SeqRange(models) \cap DictKeys(instances),
                        "rmv", endpoint)
    /\ last' = Call("remove_instance", "-", "-", "none", "-", "-", <<>>)

\* models=None: ','.join(models) in the log line raises TypeError before the
\* lock is taken.
RemoveInstanceNone(endpoint) ==
    /\ UNCHANGED progVars
    /\ UNCHANGED <<instances, picks, touch>>
    /\ last' = Call("remove_instance_none", endpoint, "-", "TypeError", "-",
                    "-", <<>>)

\* pick_endpoint / _choose: the lookup, then bucket.next().
Select(op, missing, model) ==
    /\ UNCHANGED progVars
    /\ UNCHANGED touch
    /\ IF ~DictHas(instances, model)
       THEN /\ UNCHANGED <<instances, picks>>
            /\ last' = Call(op, "-", model, missing, "-", "-", <<>>)
       ELSE LET b == DictGet(instances, model)
            IN  IF RRNextRaises(b)
                THEN /\ UNCHANGED <<instances, picks>>
                     /\ last' = Call(op, "-", model, "RuntimeError", "-", "-",
                                     <<>>)
                ELSE /\ instances' = DictSet(instances, model, RRAdvance(b))
                     /\ picks' = Remember(picks, model, RRNextItem(b).key)
                     /\ last' = Call(op, "-", model, "none", RRNextItem(b).key,
                                     RRNextItem(b).val.apikey, <<>>)

PickEndpoint(model) == Select("pick_endpoint", "KeyError", model)

Choose(model) == Select("_choose", "HTTP404", model)

ListModels ==
    /\ UNCHANGED progVars
    /\ UNCHANGED <<instances, picks, touch>>
    /\ last' = Call("list_models", "-", "-", "none", "-", "-",
                    ListModelsF(instances))

\* Spec: two models over the endpoints A and B; A is a backend of both
\* models, B of m1 only.
SpecEndpoints == {"A", "B"}

Serves(e) == IF e = "A" THEN Models ELSE {"m1"}

Init == InitRegistry /\ InitAux

Next ==
    \/ \E e \in SpecEndpoints, ms \in ModelLists :
           \E k \in KeyChoices(e) :
               SeqRange(ms) \subseteq Serves(e) /\ AddInstance(e, k, ms)
    \/ \E e \in SpecEndpoints, ms \in ModelLists : RemoveInstance(e, ms)
    \/ \E e \in SpecEndpoints : RemoveInstanceNone(e)
    \/ \E m \in Models : PickEndpoint(m)
    \/ \E m \in Models : Choose(m)
    \/ ListModels

Spec == Init /\ [][Next]_vars

\* SpecRR: one model over the endpoints A, B and C.
InitRR == InitRegistry /\ InitAux

NextRR ==
    \/ \E e \in Endpoints : \E k \in KeyChoices(e) : AddInstance(e, k, <<"m1">>)
    \/ \E e \in Endpoints : RemoveInstance(e, <<"m1">>)
    \/ PickEndpoint("m1")
    \/ Choose("m1")

SpecRR == InitRR /\ [][NextRR]_vars

\* ====================================================== SpecProxy: the program
\* One event loop runs the tasks. A task runs from one await that suspends it
\* to the next; `running` is the task the loop is running. asyncio.Lock's
\* acquire() returns without suspending when the lock is free, and waits
\* otherwise; leaving `async with` releases the lock without suspending.

\* What the read of a request gives: the body's model (or "-" when there is
\* none), whether a stream is wanted, and the inbound Authorization header
\* ("none" when absent).
RequestInputs ==
    [model : Models \cup {"-"}, stream : BOOLEAN,
     inauth : {"none", "Bearer tok", "Bearer EMPTY"}]

\* _load_config: the static instances registered at startup.
StaticConfigs ==
    {<<>>, <<[endpoint |-> "A", apikey |-> "skA", models |-> <<"m1">>]>>}

RECURSIVE LoadInstances(_, _)
LoadInstances(inst, cfg) ==
    IF cfg = <<>> THEN inst
    ELSE LoadInstances(AddInstanceF(inst, Head(cfg).endpoint, Head(cfg).apikey,
                                    Head(cfg).models),
                       Tail(cfg))

\* What a discovery pass can find: backends of m1 among A and B.
Snapshots == {[m \in Models |-> IF m = "m1" THEN S ELSE {}] : S \in SUBSET {"A", "B"}}

\* _epdiff(a, b): per endpoint, the models it serves in a and not in b.
EpDiff(a, b) == [e \in Endpoints |-> {m \in Models : e \in a[m] /\ e \notin b[m]}]

\* update(): add and rmv.
AddOf(new, old) == EpDiff(new, old)

RmvOfSwapped(new, old) == EpDiff(new, old)

RmvOf(new, old) == EpDiff(old, new)

\* The lock after `async with self._lock` is left.
ReleasedForgot(t) == t

Released(t) == "free"

\* The registry after bucket.next() on the bucket of `model`.
AdvancedCopy(inst, model) == inst

Advanced(inst, model) == DictSet(inst, model, RRAdvance(DictGet(inst, model)))

\* The outbound Authorization header: the copied headers, then
\* forward_headers["authorization"] = f"Bearer {meta['apikey']}".
ForwardAuthCopied(inauth, meta) == inauth

ForwardAuth(inauth, meta) == "Bearer " \o meta.apikey

InitProxy ==
    /\ \E cfg \in StaticConfigs : instances = LoadInstances(<<>>, cfg)
    /\ picks = [m \in Models |-> <<>>]
    /\ touch = [m \in Models |-> NoTouch]
    /\ last = NoCall
    /\ InitProgram
    /\ InitAux

\* A request arrives: its handler starts and awaits request.body().
ReqArrive(t) ==
    /\ running = "none" /\ pc[t] = "idle"
    /\ pc' = [pc EXCEPT ![t] = "body"]
    /\ UNCHANGED <<regVars, lock, running, rq, epmap, fresh, todoRmv, todoAdd, auxVars>>

\* The body is read and has no model: 400, nothing is selected.
ReqBadBody(t) ==
    /\ running = "none" /\ pc[t] = "body"
    /\ pc' = [pc EXCEPT ![t] = "idle"]
    /\ last' = Call("proxy", "-", "-", "HTTP400", "-", "-", <<>>)
    /\ UNCHANGED <<instances, picks, touch, lock, running, rq, epmap, fresh,
                   todoRmv, todoAdd, auxVars>>

\* The body is read and names a model: the handler goes on to _choose.
ReqBody(t, in) ==
    /\ running = "none" /\ pc[t] = "body"
    /\ in.model # "-"
    /\ running' = t
    /\ pc' = [pc EXCEPT ![t] = "acquire"]
    /\ rq' = [rq EXCEPT ![t] = [NoRequest EXCEPT !.model = in.model,
                                                 !.stream = in.stream,
                                                 !.inauth = in.inauth]]
    /\ UNCHANGED <<regVars, lock, epmap, fresh, todoRmv, todoAdd, auxVars>>

\* _choose: async with self._lock
ChooseAcquire(t) ==
    /\ running = t /\ pc[t] = "acquire"
    /\ lock = "free"
    /\ lock' = t
    /\ pc' = [pc EXCEPT ![t] = "lookup"]
    /\ UNCHANGED <<regVars, running, rq, epmap, fresh, todoRmv, todoAdd, auxVars>>

\* _choose: bucket = self._instances.get(model), the lock is left; the bucket
\* is there.
ChooseLookup(t) ==
    /\ running = t /\ pc[t] = "lookup"
    /\ DictHas(instances, rq[t].model)
    /\ lock' = Released(t)
    /\ pc' = [pc EXCEPT ![t] = "next"]
    /\ UNCHANGED <<regVars, running, rq, epmap, fresh, todoRmv, todoAdd, auxVars>>

\* _choose: the lookup gives None: 404.
ChooseUnknown(t) ==
    /\ running = t /\ pc[t] = "lookup"
    /\ ~DictHas(instances, rq[t].model)
    /\ lock' = Released(t)
    /\ running' = "none"
    /\ pc' = [pc EXCEPT ![t] = "idle"]
    /\ rq' = [rq EXCEPT ![t] = NoRequest]
    /\ last' = Call("proxy", "-", "-", "HTTP404", "-", "-", <<>>)
    /\ UNCHANGED <<instances, picks, touch, epmap, fresh, todoRmv, todoAdd, auxVars>>

\* _choose: bucket.next() raises RuntimeError; proxy() logs it and re-raises.
ChooseNextRaises(t) ==
    /\ running = t /\ pc[t] = "next"
    /\ RRNextRaises(DictGet(instances, rq[t].model))
    /\ running' = "none"
    /\ pc' = [pc EXCEPT ![t] = "idle"]
    /\ rq' = [rq EXCEPT ![t] = NoRequest]
    /\ last' = Call("proxy", "-", "-", "RuntimeError", "-", "-", <<>>)
    /\ UNCHANGED <<instances, picks, touch, lock, epmap, fresh, todoRmv, todoAdd, auxVars>>

\* _choose: bucket.next() gives (endpoint, meta); the outbound headers are
\* built and the request is handed to the HTTP client (client.request, or
\* client.stream when a stream is wanted): the handler awaits the upstream.
\* rq.key keeps the key stored in _data for the endpoint at this time.
ChooseNext(t) ==
    /\ running = t /\ pc[t] = "next"
    /\ LET model == rq[t].model
           b == DictGet(instances, model)
       IN  /\ ~RRNextRaises(b)
           /\ instances' = Advanced(instances, model)
           /\ picks' = Remember(picks, model, RRNextItem(b).key)
           /\ rq' = [rq EXCEPT ![t].ep = RRNextItem(b).key,
                               ![t].key = DictGet(b.data, RRNextItem(b).key).apikey,
                               ![t].fwd = ForwardAuth(rq[t].inauth,
                                                      RRNextItem(b).val)]
    /\ running' = "none"
    /\ pc' = [pc EXCEPT ![t] = "upstream"]
    /\ UNCHANGED <<touch, last, lock, epmap, fresh, todoRmv, todoAdd, auxVars>>

\* The upstream answers and the response is returned to the caller.
UpstreamResponds(t) ==
    /\ running = "none" /\ pc[t] = "upstream"
    /\ pc' = [pc EXCEPT ![t] = "idle"]
    /\ rq' = [rq EXCEPT ![t] = NoRequest]
    /\ last' = Call("proxy", "-", "-", "none", "-", "-", <<>>)
    /\ UNCHANGED <<instances, picks, touch, lock, running, epmap, fresh,
                   todoRmv, todoAdd, auxVars>>

\* The transport fails: proxy() logs the exception and re-raises it.
UpstreamFails(t) ==
    /\ running = "none" /\ pc[t] = "upstream"
    /\ pc' = [pc EXCEPT ![t] = "idle"]
    /\ rq' = [rq EXCEPT ![t] = NoRequest]
    /\ last' = Call("proxy", "-", "-", "TransportError", "-", "-", <<>>)
    /\ UNCHANGED <<instances, picks, touch, lock, running, epmap, fresh,
                   todoRmv, todoAdd, auxVars>>

\* periodic_update -> update(): discovery has gathered the snapshot `found`;
\* add and rmv are computed.
UpdateDiscovered(found) ==
    /\ running = "none" /\ pc["rec"] = "sleep"
    /\ running' = "rec"
    /\ pc' = [pc EXCEPT !["rec"] = "apply"]
    /\ fresh' = found
    /\ todoAdd' = AddOf(found, epmap)
    /\ todoRmv' = RmvOf(found, epmap)
    /\ UNCHANGED <<regVars, lock, rq, epmap, auxVars>>

\* remove_instance / add_instance: async with self._lock
UpdateAcquire ==
    /\ running = "rec" /\ pc["rec"] = "apply"
    /\ todoRmv # NoTodo \/ todoAdd # NoTodo
    /\ lock = "free"
    /\ lock' = "rec"
    /\ pc' = [pc EXCEPT !["rec"] = "locked"]
    /\ UNCHANGED <<regVars, running, rq, epmap, fresh, todoRmv, todoAdd, auxVars>>

\* for ep in rmv: await proxy.remove_instance(ep, models=rmv[ep])
UpdateRemove(ep, models) ==
    /\ running = "rec" /\ pc["rec"] = "locked"
    /\ todoRmv[ep] # {} /\ SeqRange(models) = todoRmv[ep]
    /\ instances' = RemoveInstanceF(instances, ep, models)
    /\ picks' = CutPicks(picks, SeqRange(models) \cap DictKeys(instances))
    /\ todoRmv' = [todoRmv EXCEPT ![ep] = {}]
    /\ touch' = Touched(touch, SeqRange(models) \cap DictKeys(instances),
                        "rmv", ep)
    /\ lock' = Released("rec")
    /\ pc' = [pc EXCEPT !["rec"] = "apply"]
    /\ UNCHANGED <<last, running, rq, epmap, fresh, todoAdd, auxVars>>

\* for ep in add: await proxy.add_instance(ep, 'EMPTY', models=add[ep])
UpdateAdd(ep, models) ==
    /\ running = "rec" /\ pc["rec"] = "locked"
    /\ todoRmv = NoTodo
    /\ todoAdd[ep] # {} /\ SeqRange(models) = todoAdd[ep]
    /\ instances' = AddInstanceF(instances, ep, "EMPTY", models)
    /\ picks' = CutPicks(picks, SeqRange(models))
    /\ todoAdd' = [todoAdd EXCEPT ![ep] = {}]
    /\ touch' = Touched(touch, SeqRange(models), "add", ep)
    /\ lock' = Released("rec")
    /\ pc' = [pc EXCEPT !["rec"] = "apply"]
    /\ UNCHANGED <<last, running, rq, epmap, fresh, todoRmv, auxVars>>

\* self._epmap = epmap; update returns and the task sleeps.
UpdateFinish ==
    /\ running = "rec" /\ pc["rec"] = "apply"
    /\ todoRmv = NoTodo /\ todoAdd = NoTodo
    /\ epmap' = fresh
    /\ fresh' = NoSnapshot
    /\ running' = "none"
    /\ pc' = [pc EXCEPT !["rec"] = "sleep"]
    /\ UNCHANGED <<regVars, lock, rq, todoRmv, todoAdd, auxVars>>

NextProxy ==
    \/ \E t \in Reqs : ReqArrive(t)
    \/ \E t \in Reqs : ReqBadBody(t)
    \/ \E t \in Reqs, in \in RequestInputs : ReqBody(t, in)
    \/ \E t \in Reqs : ChooseAcquire(t)
    \/ \E t \in Reqs : ChooseLookup(t)
    \/ \E t \in Reqs : ChooseUnknown(t)
    \/ \E t \in Reqs : ChooseNextRaises(t)
    \/ \E t \in Reqs : ChooseNext(t)
    \/ \E t \in Reqs : UpstreamResponds(t)
    \/ \E t \in Reqs : UpstreamFails(t)
    \/ \E found \in Snapshots : UpdateDiscovered(found)
    \/ UpdateAcquire
    \/ \E ep \in Endpoints, ms \in ModelLists : UpdateRemove(ep, ms)
    \/ \E ep \in Endpoints, ms \in ModelLists : UpdateAdd(ep, ms)
    \/ UpdateFinish

SpecProxy == InitProxy /\ [][NextProxy]_vars

\* ====================================================== SpecStream
\* proxy_request_stream for two streaming requests, from the moment the
\* endpoint is chosen: the AsyncExitStack, the aiter() generator handed to
\* StreamingResponse, and the downstream caller who may go away at any time.
\* relay[t].pc is where request t stands:
\*   "idle"     not arrived
\*   "connect"  the client is entered, client.stream(...) is awaited
\*   "respond"  StreamingResponse is returned, aiter() is not started yet
\*   "await"    aiter() is suspended in `async for chunk in aiter_bytes()`
\*   "yield"    aiter() is suspended at `yield chunk`
\*   "closing"  aiter() is in `finally: await stack.aclose()`
\*   "closed"   aiter() has finished
\*   "raised"   proxy_request_stream raised before returning a response
\*   "dropped"  the response was abandoned before aiter() was started

\* Number of chunks an upstream body can hold.
MaxChunks == 2

InRelay == {"await", "yield"}

\* up is what upstream.aiter_bytes() has produced so far, dl what the caller
\* was sent, chunk the chunk aiter() holds at its yield.
IdleRelay ==
    [pc |-> "idle", stack |-> <<>>, down |-> TRUE, left |-> 0, gone |-> "no",
     exc |-> "none", up |-> <<>>, dl |-> <<>>, chunk |-> <<>>]

\* The next chunk of a body of which `up` was produced: empty, or two bytes,
\* each byte being its own offset in the body.
ChunkBytes(up, empty) == IF empty THEN <<>> ELSE <<Len(up) + 1, Len(up) + 2>>

\* if chunk: yield chunk, resumed: the chunk has gone to the caller.
DeliverLost(r) == [r EXCEPT !.pc = "await", !.chunk = <<>>]

Deliver(r) == [r EXCEPT !.pc = "await", !.dl = @ \o r.chunk, !.chunk = <<>>]

\* stack.enter_async_context(cm): cm is entered and pushed.
Entered(stack, cm) == Append(stack, cm)

\* One step of stack.aclose(): the last context entered is exited first
\* (upstream, then client).
Exited(stack) == SubSeq(stack, 1, Len(stack) - 1)

\* aiter(): whichever way the try block is left, the finally clause runs.
FinallySkipped(r, how) == [r EXCEPT !.pc = "closed", !.exc = how]

Finally(r, how) == [r EXCEPT !.pc = "closing", !.exc = how]

InitStream ==
    /\ InitRegistry
    /\ relay = [t \in Reqs |-> IdleRelay]
    /\ gate = NoGate
    /\ disc = NoDisc
    /\ route = NoRoute

RelayStep(t, r) ==
    /\ relay' = [relay EXCEPT ![t] = r]
    /\ UNCHANGED <<regVars, lock, running, pc, rq, epmap, fresh, todoRmv,
                   todoAdd, gate, disc, route>>

\* stack = AsyncExitStack(); client = await stack.enter_async_context(...)
StreamOpen(t) ==
    /\ relay[t].pc = "idle"
    /\ RelayStep(t, [relay[t] EXCEPT !.pc = "connect",
                                     !.stack = Entered(@, "client")])

\* upstream = await stack.enter_async_context(client.stream(...)): the
\* upstream answers with a body of `n` chunks; the StreamingResponse is built
\* and returned.
StreamConnected(t, n) ==
    /\ relay[t].pc = "connect"
    /\ RelayStep(t, [relay[t] EXCEPT !.pc = "respond", !.left = n,
                                     !.stack = Entered(@, "upstream")])

\* client.stream(...) raises: the exception leaves proxy_request_stream, and
\* nothing closes the stack.
StreamConnectFails(t) ==
    /\ relay[t].pc = "connect"
    /\ RelayStep(t, [relay[t] EXCEPT !.pc = "raised", !.exc = "ConnectError"])

\* The downstream caller goes away.
Disconnect(t) ==
    /\ relay[t].pc \in {"connect", "respond"} \cup InRelay
    /\ relay[t].down
    /\ RelayStep(t, [relay[t] EXCEPT !.down = FALSE,
                         !.gone = IF relay[t].pc \in InRelay THEN "relay"
                                  ELSE "early"])

\* The response starts iterating aiter().
RelayStart(t) ==
    /\ relay[t].pc = "respond"
    /\ RelayStep(t, [relay[t] EXCEPT !.pc = "await"])

\* The response is cancelled before it asked aiter() for anything: the body
\* of aiter() never runs, its finally clause included.
RelayNeverStarted(t) ==
    /\ relay[t].pc = "respond"
    /\ ~relay[t].down
    /\ RelayStep(t, [relay[t] EXCEPT !.pc = "dropped"])

\* async for chunk in upstream.aiter_bytes(): if chunk: yield chunk
RelayChunk(t, empty) ==
    /\ relay[t].pc = "await"
    /\ relay[t].left > 0
    /\ LET chunk == ChunkBytes(relay[t].up, empty)
       IN  RelayStep(t, [relay[t] EXCEPT
               !.left = @ - 1,
               !.up = @ \o chunk,
               !.chunk = chunk,
               !.pc = IF chunk # <<>> THEN "yield" ELSE "await"])

\* The chunk is sent downstream and the next one is asked for.
RelaySent(t) ==
    /\ relay[t].pc = "yield"
    /\ relay[t].down
    /\ RelayStep(t, Deliver(relay[t]))

\* The upstream body is exhausted.
RelayEOF(t) ==
    /\ relay[t].pc = "await"
    /\ relay[t].left = 0
    /\ RelayStep(t, Finally(relay[t], "none"))

\* aiter_bytes() raises: httpx.StreamClosed is caught, anything else leaves
\* aiter().
RelayRaises(t, exc) ==
    /\ relay[t].pc = "await"
    /\ RelayStep(t, Finally(relay[t], exc))

\* The caller is gone and the relay is cancelled while aiter() awaits a
\* chunk: `except anyio.get_cancelled_exc_class(): return`.
RelayCancelled(t) ==
    /\ relay[t].pc = "await"
    /\ ~relay[t].down
    /\ RelayStep(t, Finally(relay[t], "Cancelled"))

\* The caller is gone while aiter() is suspended at the yield: the generator
\* is closed there (GeneratorExit).
RelayAbandoned(t) ==
    /\ relay[t].pc = "yield"
    /\ ~relay[t].down
    /\ RelayStep(t, Finally(relay[t], "GeneratorExit"))

\* finally: await stack.aclose(), one context at a time.
StackClose(t) ==
    /\ relay[t].pc = "closing"
    /\ relay[t].stack # <<>>
    /\ RelayStep(t, [relay[t] EXCEPT !.stack = Exited(@)])

\* stack.aclose() has returned and aiter() ends.
RelayEnd(t) ==
    /\ relay[t].pc = "closing"
    /\ relay[t].stack = <<>>
    /\ RelayStep(t, [relay[t] EXCEPT !.pc = "closed"])

StreamExcs == {"StreamClosed", "ReadError"}

\* What happens to a relay whose caller is gone without the upstream's help.
Unwind(t) ==
    \/ RelayCancelled(t)
    \/ RelayAbandoned(t)
    \/ StackClose(t)
    \/ RelayEnd(t)

NextStream ==
    \/ \E t \in Reqs : StreamOpen(t)
    \/ \E t \in Reqs, n \in 0..MaxChunks : StreamConnected(t, n)
    \/ \E t \in Reqs : StreamConnectFails(t)
    \/ \E t \in Reqs : Disconnect(t)
    \/ \E t \in Reqs : RelayStart(t)
    \/ \E t \in Reqs : RelayNeverStarted(t)
    \/ \E t \in Reqs, empty \in BOOLEAN : RelayChunk(t, empty)
    \/ \E t \in Reqs : RelaySent(t)
    \/ \E t \in Reqs : RelayEOF(t)
    \/ \E t \in Reqs, exc \in StreamExcs : RelayRaises(t, exc)
    \/ \E t \in Reqs : RelayCancelled(t)
    \/ \E t \in Reqs : RelayAbandoned(t)
    \/ \E t \in Reqs : StackClose(t)
    \/ \E t \in Reqs : RelayEnd(t)

\* The event loop keeps running a task that can run.
SpecStream ==
    InitStream /\ [][NextStream]_vars /\ \A t \in Reqs : WF_vars(Unwind(t))

\* ======================================================== SpecDisc
\* periodic_update driving one K8SDiscoveryService against the registry, with
\* the cluster answering each query as it likes.  disc.pc is where the task
\* stands: "sleep" (asyncio.sleep), "update" (update() is gathering the
\* snapshot, disc.sel the selector queried next), "apply" (add and rmv are
\* computed and being applied) or "ended" (the task has finished).

\* self._selectors, in order; modelkey is selector.get('modelkey', None).
Selectors ==
    <<[name |-> "s1", modelkey |-> "borg/models"],
      [name |-> "s2", modelkey |-> "none"]>>

\* A model id that cannot be a dict key, as the comment in update() fears.
Unhashable == "{}"

\* A pod as _discover reads it: ann is annotations.get(modelkey, '').split(',')
\* and enum is what _enum_models answers for its endpoint (EnumRaises when
\* it raises).
EnumRaises == <<"raise">>

Pod(ep, phase, annotated, ann, enum) ==
    [ep |-> ep, phase |-> phase, annotated |-> annotated, ann |-> ann,
     enum |-> enum]

\* What list_namespaced_pod can answer for a selector.
PodLists(s) ==
    IF s = 1
    THEN {<<>>,
          <<Pod("A", "Running", TRUE, <<"m1">>, EnumRaises)>>,
          <<Pod("A", "Running", TRUE, <<"m1", "", "m2">>, EnumRaises)>>,
          <<Pod("A", "Pending", TRUE, <<"m1">>, EnumRaises)>>,
          <<Pod("A", "Running", FALSE, <<"m1">>, EnumRaises)>>,
          <<Pod("A", "Running", TRUE, <<"">>, <<"m2">>)>>,
          <<Pod("B", "Running", TRUE, <<"">>, EnumRaises),
            Pod("A", "Running", TRUE, <<"m1">>, EnumRaises)>>}
    ELSE {<<>>,
          <<Pod("B", "Running", TRUE, <<"">>, <<"m1">>)>>,
          <<Pod("B", "Running", TRUE, <<"">>, <<>>)>>,
          <<Pod("B", "Running", TRUE, <<"">>, EnumRaises)>>,
          <<Pod("B", "Running", TRUE, <<"">>, <<"m1">>),
            Pod("A", "Running", TRUE, <<"">>, EnumRaises),
            Pod("C", "Running", TRUE, <<"">>, <<"m1">>)>>,
          <<Pod("B", "Running", TRUE, <<"">>, <<Unhashable>>)>>}

\* list(filter(None, models))
NonEmpty(ann) == SelectSeq(ann, LAMBDA x : x # "")

\* if pod.status.phase != 'Running': continue; if not annotations: continue
Skipped(pod) == pod.phase # "Running" \/ ~pod.annotated

\* _enum_models raises inside the loop: the endpoints yielded so far have
\* left the generator already, the loop is over.
OnEnumErrorDrop(eps) == [eps |-> <<>>, raised |-> TRUE]

OnEnumError(eps) == [eps |-> eps, raised |-> TRUE]

\* _discover after the pods are listed: the endpoints it yields, and whether
\* the loop was left by an exception (which _discover logs and swallows).
RECURSIVE DiscoverF(_, _, _)
DiscoverF(pods, modelkey, eps) ==
    IF pods = <<>> THEN [eps |-> eps, raised |-> FALSE]
    ELSE LET pod == Head(pods)
             models == IF modelkey # "none" THEN NonEmpty(pod.ann) ELSE <<>>
         IN  IF Skipped(pod)
             THEN DiscoverF(Tail(pods), modelkey, eps)
             ELSE IF models = <<>> /\ pod.enum = EnumRaises
             THEN OnEnumError(eps)
             ELSE LET found == IF models = <<>> THEN pod.enum ELSE models
                  IN  IF found = <<>>
                      THEN DiscoverF(Tail(pods), modelkey, eps)
                      ELSE DiscoverF(Tail(pods), modelkey,
                                     Append(eps, [endpoint |-> pod.ep,
                                                  models |-> found,
                                                  apikey |-> "EMPTY"]))

\* update(): for m in ep.models: epmap.setdefault(m, set()).add(ep.endpoint);
\* an unhashable m raises TypeError.
RECURSIVE FoldModels(_, _, _)
FoldModels(map, endpoint, models) ==
    IF models = <<>> THEN [map |-> map, raised |-> FALSE]
    ELSE IF Head(models) = Unhashable THEN [map |-> map, raised |-> TRUE]
    ELSE LET m == Head(models)
             old == IF DictHas(map, m) THEN DictGet(map, m) ELSE {}
         IN  FoldModels(DictSet(map, m, old \cup {endpoint}), endpoint,
                        Tail(models))

RECURSIVE FoldEps(_, _)
FoldEps(map, eps) ==
    IF eps = <<>> THEN [map |-> map, raised |-> FALSE]
    ELSE LET r == FoldModels(map, Head(eps).endpoint, Head(eps).models)
         IN  IF r.raised THEN r ELSE FoldEps(r.map, Tail(eps))

\* The orders in which a set of endpoints can be iterated.
Orders == {o \in Endpoints \X Endpoints \X Endpoints : SeqRange(o) = Endpoints}

\* _epdiff(a, b), the inner loop: for ep in a[m]: if not ep in bset: ...
RECURSIVE EpDiffEps(_, _, _, _)
EpDiffEps(new, m, eps, bset) ==
    IF eps = <<>> THEN new
    ELSE LET ep == Head(eps)
             sofar == IF DictHas(new, ep) THEN DictGet(new, ep) ELSE <<>>
         IN  EpDiffEps(IF ep \notin bset
                       THEN DictSet(new, ep, Append(sofar, m))
                       ELSE new,
                       m, Tail(eps), bset)

\* _epdiff(a, b), the outer loop: for m in a.keys(): bset = b.get(m, set()).
\* ord is the order in which the sets iterate.
RECURSIVE EpDiffModels(_, _, _, _)
EpDiffModels(new, a, b, ord) ==
    IF a = <<>> THEN new
    ELSE LET m == Head(a).key
             bset == IF DictHas(b, m) THEN DictGet(b, m) ELSE {}
             eps == SelectSeq(ord, LAMBDA e : e \in Head(a).val)
         IN  EpDiffModels(EpDiffEps(new, m, eps, bset), Tail(a), b, ord)

\* _epdiff(a, b): the dict endpoint -> list of models, as the code builds it
\* (EpDiff above is the same result seen as sets).
EpDiffSwapped(a, b, ord) == EpDiffModels(<<>>, b, a, ord)

EpDiffF(a, b, ord) == EpDiffModels(<<>>, a, b, ord)

IdleDisc ==
    [pc |-> "sleep", sel |-> 1, fresh |-> <<>>, epmap |-> <<>>, add |-> <<>>,
     rmv |-> <<>>, done |-> 0, log |-> <<>>, failed |-> {},
     got |-> [i \in 1..Len(Selectors) |-> {}], exc |-> "none", prev |-> "-",
     pods |-> [i \in 1..Len(Selectors) |-> <<>>], static |-> {}, seen |-> {}]

\* History kept for the claims: pods is what each selector's query answered
\* in this pass, static the (model, endpoint, key) triples _load_config
\* registered, seen the (model, endpoint) pairs of every snapshot diffed so
\* far.
StaticPairs(inst) ==
    UNION {{<<inst[i].key, inst[i].val.data[j].key,
              inst[i].val.data[j].val.apikey>> :
                j \in 1..Len(inst[i].val.data)} : i \in 1..Len(inst)}

SnapshotPairs(map) ==
    UNION {{<<map[i].key, e>> : e \in map[i].val} : i \in 1..Len(map)}

\* update(): what rmv is computed against, self._epmap.
PreviousFromRegistry(d, inst) ==
    [i \in 1..Len(inst) |->
        [key |-> inst[i].key, val |-> DictKeys(inst[i].val.data)]]

Previous(d, inst) == d.epmap

\* update(): proxy.add_instance(ep, 'EMPTY', models=add[ep])
ApplyAddKeepKey(inst, ep, models) ==
    AddInstanceF(inst, ep, "EMPTY",
                 SelectSeq(models, LAMBDA m : ep \notin Members(inst, m)))

ApplyAddF(inst, ep, models) == AddInstanceF(inst, ep, "EMPTY", models)

\* How an update() that is over ended.
Ended(d) ==
    IF d.exc # "none" THEN d.exc
    ELSE IF d.log # <<>> /\ d.log[Len(d.log)].op = "store" THEN "stored"
    ELSE "-"

\* _discover: `except Exception as e: logger.error(...)`, and discover() goes
\* on with the next selector.
AfterQueryErrorAbort(d, i) ==
    [d EXCEPT !.pc = "sleep", !.exc = "ApiException", !.failed = @ \cup {i}]

AfterQueryError(d, i) == [d EXCEPT !.sel = i + 1, !.failed = @ \cup {i}]

\* periodic_update: `except Exception as e: logger.exception(...)`, then
\* asyncio.sleep(update_interval).
Uncaught(d, exc) == [d EXCEPT !.pc = "ended", !.exc = exc]

Caught(d, exc) == [d EXCEPT !.pc = "sleep", !.exc = exc]

\* update(): the call the two loops and the final assignment make next.
NextCallAddFirst(d) ==
    IF d.done < Len(d.add)
    THEN [op |-> "add", ep |-> d.add[d.done + 1].key,
          models |-> d.add[d.done + 1].val]
    ELSE IF d.done < Len(d.add) + Len(d.rmv)
    THEN [op |-> "rmv", ep |-> d.rmv[d.done - Len(d.add) + 1].key,
          models |-> d.rmv[d.done - Len(d.add) + 1].val]
    ELSE [op |-> "store", ep |-> "-", models |-> <<>>]

NextCall(d) ==
    IF d.done < Len(d.rmv)
    THEN [op |-> "rmv", ep |-> d.rmv[d.done + 1].key,
          models |-> d.rmv[d.done + 1].val]
    ELSE IF d.done < Len(d.rmv) + Len(d.add)
    THEN [op |-> "add", ep |-> d.add[d.done - Len(d.rmv) + 1].key,
          models |-> d.add[d.done - Len(d.rmv) + 1].val]
    ELSE [op |-> "store", ep |-> "-", models |-> <<>>]

InitDisc ==
    /\ \E cfg \in StaticConfigs : instances = LoadInstances(<<>>, cfg)
    /\ picks = [m \in Models |-> <<>>]
    /\ touch = [m \in Models |-> NoTouch]
    /\ last = NoCall
    /\ InitProgram
    /\ gate = NoGate
    /\ relay = NoRelay
    /\ route = NoRoute
    /\ disc = [IdleDisc EXCEPT !.static = StaticPairs(instances)]

DiscStep(d) ==
    /\ disc' = d
    /\ UNCHANGED <<picks, last, lock, running, pc, rq, epmap, fresh, todoRmv,
                   todoAdd, gate, relay, route>>

\* await asyncio.sleep(update_interval) returns: `for svc in services:
\* await svc.update(proxy)` starts with epmap = dict().
Wake ==
    /\ disc.pc = "sleep"
    /\ DiscStep([IdleDisc EXCEPT !.pc = "update", !.epmap = disc.epmap,
                                 !.prev = Ended(disc),
                                 !.static = disc.static, !.seen = disc.seen])
    /\ UNCHANGED <<instances, touch>>

\* _discover: list_namespaced_pod raises for the selector.
QueryRaises ==
    /\ disc.pc = "update" /\ disc.sel <= Len(Selectors)
    /\ DiscStep(AfterQueryError(disc, disc.sel))
    /\ UNCHANGED <<instances, touch>>

\* _discover: the pods are listed and the endpoints yielded are folded into
\* the local epmap.
QueryAnswers(s, pods) ==
    /\ disc.pc = "update" /\ disc.sel = s
    /\ LET r == DiscoverF(pods, Selectors[disc.sel].modelkey, <<>>)
           f == FoldEps(disc.fresh, r.eps)
       IN  /\ ~f.raised
           /\ DiscStep([disc EXCEPT
                  !.sel = @ + 1,
                  !.fresh = f.map,
                  !.pods[disc.sel] = pods,
                  !.got[disc.sel] = {r.eps[i].endpoint : i \in 1..Len(r.eps)}])
    /\ UNCHANGED <<instances, touch>>

\* update(): a model id cannot be hashed; the TypeError leaves update() and
\* periodic_update catches it.
UpdateRaises(s, pods) ==
    /\ disc.pc = "update" /\ disc.sel = s
    /\ LET r == DiscoverF(pods, Selectors[disc.sel].modelkey, <<>>)
       IN  FoldEps(disc.fresh, r.eps).raised
    /\ DiscStep(Caught(disc, "TypeError"))
    /\ UNCHANGED <<instances, touch>>

\* add = _epdiff(epmap, self._epmap); rmv = _epdiff(self._epmap, epmap)
Diff(oa, or) ==
    /\ disc.pc = "update" /\ disc.sel > Len(Selectors)
    /\ DiscStep([disc EXCEPT
           !.pc = "apply",
           !.seen = @ \cup SnapshotPairs(disc.fresh),
           !.add = EpDiffF(disc.fresh, Previous(disc, instances), oa),
           !.rmv = EpDiffF(Previous(disc, instances), disc.fresh, or)])
    /\ UNCHANGED <<instances, touch>>

Logged(d, call) == [d EXCEPT !.done = @ + 1, !.log = Append(@, call)]

\* for ep in rmv: await proxy.remove_instance(ep, models=rmv[ep])
ApplyRemove ==
    /\ disc.pc = "apply"
    /\ LET call == NextCall(disc)
       IN  /\ call.op = "rmv"
           /\ instances' = RemoveInstanceF(instances, call.ep, call.models)
           /\ touch' = Touched(touch,
                               SeqRange(call.models) \cap DictKeys(instances),
                               "rmv", call.ep)
           /\ DiscStep(Logged(disc, call))

\* for ep in add: await proxy.add_instance(ep, 'EMPTY', models=add[ep])
ApplyAdd ==
    /\ disc.pc = "apply"
    /\ LET call == NextCall(disc)
       IN  /\ call.op = "add"
           /\ instances' = ApplyAddF(instances, call.ep, call.models)
           /\ touch' = Touched(touch, SeqRange(call.models), "add", call.ep)
           /\ DiscStep(Logged(disc, call))

\* self._epmap = epmap; update() returns and periodic_update sleeps.
Store ==
    /\ disc.pc = "apply"
    /\ LET call == NextCall(disc)
       IN  /\ call.op = "store"
           /\ DiscStep([Logged(disc, call) EXCEPT !.pc = "sleep",
                                                  !.epmap = disc.fresh])
    /\ UNCHANGED <<instances, touch>>

NextDisc ==
    \/ Wake
    \/ QueryRaises
    \/ \E s \in 1..Len(Selectors) : \E pods \in PodLists(s) :
           QueryAnswers(s, pods)
    \/ \E s \in 1..Len(Selectors) : \E pods \in PodLists(s) :
           UpdateRaises(s, pods)
    \/ \E oa \in Orders, or \in Orders : Diff(oa, or)
    \/ ApplyRemove
    \/ ApplyAdd
    \/ Store

\* The sleep ends, every query and every call returns or raises.
SpecDisc == InitDisc /\ [][NextDisc]_vars /\ WF_vars(NextDisc)

\* ======================================================== SpecAuth
\* The Auth Gate: tokens minted by genkey._make_token, possibly damaged on
\* the way, presented in the Authorization header of a POST /v1/... request;
\* require_auth runs as the dependency of openai_proxy, and only when it
\* returns does the handler go on to choose an endpoint.
\* Strings that are cut or compared by prefix are sequences of characters.

\* ProxyService.NONCE_LEN, and the length of an AES-GCM tag.
NONCE_LEN == 12

TagLen == 16

AuthKeys == {"K1", "K2"}

Prefixes == {<<"B">>, <<"B", "O">>, <<"X">>}

Usernames == {<<>>, <<"a">>, <<"O", "a">>}

Anonymous == <<"A", "N", "O", "N", "Y", "M", "O", "U", "S">>

\* str.encode() / bytes.decode(): one byte per character here; a byte that is
\* no character makes decode() raise.
Utf8Encode(str) == [i \in 1..Len(str) |-> [byte |-> str[i]]]

Utf8Valid(bytes) == \A i \in 1..Len(bytes) : DOMAIN bytes[i] = {"byte"}

Utf8Decode(bytes) == [i \in 1..Len(bytes) |-> bytes[i].byte]

\* secrets.token_bytes(NONCE_LEN)
Nonces == {"n1", "n2"}

NonceBytes(n) == [i \in 1..NONCE_LEN |-> [nonce |-> n, at |-> i]]

\* AESGCM(key).encrypt(nonce, payload, None): the ciphertext, as long as the
\* payload, then the tag over all of it.
TagBytes(key, n, payload) ==
    [j \in 1..TagLen |-> [tag |-> <<key, n, payload>>, at |-> j]]

Encrypt(key, n, payload) ==
    [i \in 1..Len(payload) |->
        [ct |-> payload[i], key |-> key, nonce |-> n, at |-> i]]
    \o TagBytes(key, n, payload)

\* AESGCM(key).decrypt(nonce, ct_tag, None): the payload when ct_tag is what
\* encrypt made under this key and nonce, InvalidTag otherwise.
Decrypt(key, nonce, ct_tag) ==
    LET clen == Len(ct_tag) - TagLen
        ct == SubSeq(ct_tag, 1, clen)
        sealed == /\ clen >= 0
                  /\ \A i \in 1..clen :
                         /\ DOMAIN ct[i] = {"ct", "key", "nonce", "at"}
                         /\ ct[i].key = key /\ ct[i].at = i
                         /\ NonceBytes(ct[i].nonce) = nonce
        payload == [i \in 1..clen |-> ct[i].ct]
        authentic ==
            /\ sealed
            /\ \E n \in Nonces :
                   /\ NonceBytes(n) = nonce
                   /\ SubSeq(ct_tag, clen + 1, Len(ct_tag))
                          = TagBytes(key, n, payload)
    IN  IF authentic THEN [raised |-> "none", payload |-> payload]
        ELSE [raised |-> "InvalidTag", payload |-> <<>>]

\* base64.urlsafe_b64encode(buf).decode() and urlsafe_b64decode(s.encode()):
\* a string that is the encoding of some bytes gives them back, any other
\* string raises.
B64Encode(buf) == [b64 |-> TRUE, of |-> buf]

NotBase64 == [b64 |-> FALSE, of |-> <<>>]

\* genkey._make_token(username, key, prefix), n the nonce drawn.
MakeToken(username, key, prefix, n) ==
    B64Encode(NonceBytes(n) \o Encrypt(key, n, Utf8Encode(prefix \o username)))

\* _decrypt_token: `except Exception: raise HTTPException(401, ...)`.
DecodeFailureTelling(why) ==
    [status |-> 401, detail |-> why, username |-> <<>>]

DecodeFailure(why) ==
    [status |-> 401, detail |-> "Invalid API key", username |-> <<>>]

\* _decrypt_token(token_b64, key): the plaintext, or why it failed.
DecryptToken(tok, key) ==
    IF ~tok.b64 THEN [raised |-> "binascii.Error", text |-> <<>>]
    ELSE IF Len(tok.of) <= NONCE_LEN
    THEN [raised |-> "ValueError", text |-> <<>>]
    ELSE LET r == Decrypt(key, SubSeq(tok.of, 1, NONCE_LEN),
                          SubSeq(tok.of, NONCE_LEN + 1, Len(tok.of)))
         IN  IF r.raised # "none" THEN [raised |-> r.raised, text |-> <<>>]
             ELSE IF ~Utf8Valid(r.payload)
             THEN [raised |-> "UnicodeDecodeError", text |-> <<>>]
             ELSE [raised |-> "none", text |-> Utf8Decode(r.payload)]

\* str.startswith
StartsWithAlways(str, p) == TRUE

StartsWith(str, p) == Len(str) >= Len(p) /\ SubSeq(str, 1, Len(p)) = p

\* `if not self.auth_key`
KeyConfiguredAlways(key) == TRUE

KeyConfigured(key) == key # "none"

\* `if not auth or not auth.startswith(self.api_prefix)`, negated.  A header
\* is [present, scheme, rest]: its value is scheme followed by rest, and the
\* empty value has the empty scheme.
HeaderOkLax(h, api_prefix) == h.present

HeaderOk(h, api_prefix) == h.present /\ h.scheme = api_prefix

\* username = plaintext[len(self.auth_prefix):]
IdentityWhole(plaintext, prefix) == plaintext

Identity(plaintext, prefix) ==
    SubSeq(plaintext, Len(prefix) + 1, Len(plaintext))

\* require_auth(request) with auth_key `key` and auth_prefix `prefix`.
RequireAuth(key, prefix, h) ==
    IF ~KeyConfigured(key)
    THEN [status |-> 200, detail |-> "-", username |-> Anonymous]
    ELSE IF ~HeaderOk(h, "Bearer ")
    THEN [status |-> 401, detail |-> "Missing API key", username |-> <<>>]
    ELSE LET d == DecryptToken(h.rest, key)
         IN  IF d.raised # "none" THEN DecodeFailure(d.raised)
             ELSE IF ~StartsWith(d.text, prefix)
             THEN [status |-> 401, detail |-> "Invalid API key",
                   username |-> <<>>]
             ELSE [status |-> 200, detail |-> "-",
                   username |-> Identity(d.text, prefix)]

\* What can happen to a token between minting and presenting.
DamageKinds == {"not_base64", "short", "flip_ct", "flip_tag", "cut_tag"}

Flipped == [flipped |-> TRUE]

Damaged(tok, kind) ==
    CASE kind = "not_base64" -> NotBase64
      [] kind = "short" -> B64Encode(SubSeq(tok.of, 1, NONCE_LEN))
      [] kind = "flip_ct" ->
             B64Encode([tok.of EXCEPT ![NONCE_LEN + 1] = Flipped])
      [] kind = "flip_tag" ->
             B64Encode([tok.of EXCEPT ![Len(tok.of)] = Flipped])
      [] kind = "cut_tag" -> B64Encode(SubSeq(tok.of, 1, Len(tok.of) - 1))

NoHeader == [present |-> FALSE, scheme |-> "", rest |-> NotBase64]

\* The Authorization header a caller holding token tok sends: none, an
\* empty one, or the token after a scheme.
HeaderForms == {"absent", "empty", "Bearer ", "bearer ", "Basic "}

HeaderOf(form, tok) ==
    CASE form = "absent" -> NoHeader
      [] form = "empty" -> [present |-> TRUE, scheme |-> "", rest |-> NotBase64]
      [] OTHER -> [present |-> TRUE, scheme |-> form, rest |-> tok]

NoResult == [status |-> 0, detail |-> "-", username |-> <<>>]

NoMint == [username |-> <<>>, key |-> "none", prefix |-> <<>>]

\* ProxyService.__init__: auth_prefix: str | None = 'Proxy:'
ProxyDefaultPrefix == <<"P", "r", "o", "x", "y", ":">>

\* _load_config: set_auth_prefix is called only for a truthy
\* cfg.get('auth_prefix', None); <<>> stands for None and ''.
LoadedPrefix(cfg) == IF cfg # <<>> THEN cfg ELSE ProxyDefaultPrefix

\* genkey main(): auth_prefix = args.auth_prefix or cm_prefix or "PROXY:"
GenkeyPrefix(arg, cm) ==
    IF arg # <<>> THEN arg
    ELSE IF cm # <<>> THEN cm
    ELSE <<"P", "R", "O", "X", "Y", ":">>

\* auth_key and auth_prefix are set by _load_config and stay.
InitAuth ==
    /\ instances = LoadInstances(<<>>,
           <<[endpoint |-> "A", apikey |-> "skA", models |-> <<"m1">>]>>)
    /\ picks = [m \in Models |-> <<>>]
    /\ touch = [m \in Models |-> NoTouch]
    /\ last = NoCall
    /\ InitProgram
    /\ relay = NoRelay
    /\ disc = NoDisc
    /\ route = NoRoute
    /\ \E key \in {"none", "K1"}, cfg \in {<<>>, <<"B">>, <<"B", "O">>} :
           gate = [key |-> key, prefix |-> LoadedPrefix(cfg),
                   token |-> NotBase64,
                   minted |-> NoMint, damage |-> "none", pc |-> "idle",
                   header |-> NoHeader, res |-> NoResult, served |-> FALSE]

GateStep(g) ==
    /\ gate' = g
    /\ UNCHANGED <<touch, last, lock, running, pc, rq, epmap, fresh, todoRmv,
                   todoAdd, relay, disc, route>>

\* genkey: print(_make_token(args.username, key, auth_prefix))
Mint(username, key, prefix, n) ==
    /\ gate.pc = "idle"
    /\ GateStep([gate EXCEPT
           !.token = MakeToken(username, key, prefix, n),
           !.minted = [username |-> username, key |-> key, prefix |-> prefix],
           !.damage = "none", !.header = NoHeader, !.res = NoResult,
           !.served = FALSE])
    /\ UNCHANGED <<instances, picks>>

\* The token is damaged before it is presented.
Damage(kind) ==
    /\ gate.pc = "idle"
    /\ gate.minted # NoMint /\ gate.damage = "none"
    /\ GateStep([gate EXCEPT !.token = Damaged(@, kind), !.damage = kind,
                             !.header = NoHeader, !.res = NoResult,
                             !.served = FALSE])
    /\ UNCHANGED <<instances, picks>>

\* POST /v1/...: the dependency require_auth(request) runs; when it raises
\* the request is answered with the error, otherwise proxy() is entered.
Post(form) ==
    /\ gate.pc = "idle"
    /\ LET h == HeaderOf(form, gate.token)
           res == RequireAuth(gate.key, gate.prefix, h)
       IN  GateStep([gate EXCEPT !.header = h, !.res = res, !.served = FALSE,
                        !.pc = IF res.status = 200 THEN "handler" ELSE "idle"])
    /\ UNCHANGED <<instances, picks>>

\* proxy(): an endpoint is chosen for the model and the request is sent to it.
Handle ==
    /\ gate.pc = "handler"
    /\ ~RRNextRaises(DictGet(instances, "m1"))
    /\ instances' = Advanced(instances, "m1")
    /\ picks' = Remember(picks, "m1", RRNextItem(DictGet(instances, "m1")).key)
    /\ GateStep([gate EXCEPT !.served = TRUE, !.pc = "idle"])

NextAuth ==
    \/ \E u \in Usernames, k \in AuthKeys, p \in Prefixes, n \in Nonces :
           Mint(u, k, p, n)
    \/ \E u \in Usernames, k \in AuthKeys, n \in Nonces :
           Mint(u, k, GenkeyPrefix(<<>>, <<>>), n)
    \/ \E kind \in DamageKinds : Damage(kind)
    \/ \E form \in HeaderForms : Post(form)
    \/ Handle

SpecAuth == InitAuth /\ [][NextAuth]_vars

\* ======================================================== SpecRoute
\* ProxyService.proxy, one request after the other. The registry is loaded
\* from the static configuration and endpoints are removed between requests.

\* A JSON value as json.loads returns it: its Python type, its text, and for
\* a dict its items.
JVal(type, v) == [type |-> type, v |-> v, fields |-> <<>>]

PyNone == JVal("NoneType", "")

JObj(fields) == [type |-> "dict", v |-> "", fields |-> fields]

\* bool(value)
Truthy(x) ==
    CASE x.type = "NoneType" -> FALSE
      [] x.type = "bool" -> x.v = "true"
      [] x.type = "int" -> x.v # "0"
      [] x.type = "str" -> x.v # ""
      [] x.type = "list" -> x.v # "[]"
      [] x.type = "dict" -> x.fields # <<>>

\* Only a dict has .get; on any other value body.get raises AttributeError.
HasGet(x) == x.type = "dict"

\* dict.get(k): the value, or None.
PyGet(x, k) == IF DictHas(x.fields, k) THEN DictGet(x.fields, k) ELSE PyNone

\* The values of "model" and of "stream" in the bodies sent.
ModelValues ==
    {PyNone, JVal("str", "")} \cup {JVal("str", m) : m \in Models}

StreamValues ==
    {PyNone, JVal("bool", "false"), JVal("bool", "true"), JVal("int", "0"),
     JVal("str", "no")}

Field(k, x) == [key |-> k, val |-> x]

\* The JSON objects sent: each of "model" and "stream" left out or given.
Objects ==
    {JObj(<<>>)}
      \cup {JObj(<<Field("model", m)>>) : m \in ModelValues}
      \cup {JObj(<<Field("stream", s)>>) : s \in StreamValues}
      \cup {JObj(<<Field("model", m), Field("stream", s)>>) :
                m \in ModelValues, s \in StreamValues}

\* JSON texts that are no object: [], "m1", 1, null, and a list of a model.
NonObjects ==
    {JVal("list", "[]"), JVal("list", "[m1]"), JVal("str", "m1"),
     JVal("int", "1"), PyNone}

\* The raw bodies: the UTF-8 text of a JSON value, text that is no JSON
\* (the empty body too), and bytes that are no UTF-8.
RawBodies ==
    {[kind |-> "json", value |-> x] : x \in Objects \cup NonObjects}
      \cup {[kind |-> "text", value |-> PyNone],
            [kind |-> "bytes", value |-> PyNone]}

\* json.loads(raw_body): the value, or the exception raised. Bytes are
\* decoded first (UnicodeDecodeError is no JSONDecodeError).
JsonLoads(raw) ==
    CASE raw.kind = "json" -> [exc |-> "none", value |-> raw.value]
      [] raw.kind = "text" -> [exc |-> "JSONDecodeError", value |-> PyNone]
      [] raw.kind = "bytes" -> [exc |-> "UnicodeDecodeError", value |-> PyNone]

\* The hop-by-hop set of proxy_request and proxy_request_stream.
excluded ==
    {"host", "content-length", "connection", "keep-alive",
     "proxy-authenticate", "proxy-authorization", "te", "trailers",
     "transfer-encoding", "upgrade"}

\* str.lower() on the header names used here.
Lower(k) ==
    CASE k = "Upgrade" -> "upgrade"
      [] k = "X-Trace" -> "x-trace"
      [] OTHER -> k

\* A header value is the sequence of the pieces of its text; where a text
\* has 'text/event-stream' in it, that is one of the pieces.
EventStream == "text/event-stream"

\* The inbound headers as request.headers.items() gives them: one (name,
\* value) pair per header line, a repeated name giving several pairs.
HeaderLists ==
    {<<Field("host", <<"borg">>), Field("content-length", <<"2">>),
       Field("content-type", <<"application/json">>)>>,
     <<Field("host", <<"borg">>),
       Field("accept", <<EventStream, "; charset=utf-8">>),
       Field("authorization", <<"Bearer tok">>)>>,
     <<Field("accept", <<"application/json">>), Field("x-trace", <<"1">>),
       Field("x-trace", <<"2">>)>>,
     <<Field("accept", <<"application/json, ", EventStream>>),
       Field("connection", <<"keep-alive, Upgrade">>),
       Field("keep-alive", <<"timeout=5">>), Field("Upgrade", <<"h2c">>),
       Field("te", <<"trailers">>), Field("trailers", <<"x">>)>>,
     <<Field("transfer-encoding", <<"chunked">>),
       Field("proxy-authenticate", <<"Basic">>),
       Field("proxy-authorization", <<"Basic tok">>),
       Field("accept", <<"text/plain, ", "application/x-event-stream">>)>>}

\* request.headers.get(name, default): the first pair of that name.
HeaderGet(headers, name, default) ==
    IF \E i \in 1..Len(headers) : headers[i].key = name
    THEN headers[CHOOSE i \in 1..Len(headers) :
                     /\ headers[i].key = name
                     /\ \A j \in 1..(i - 1) : headers[j].key # name].val
    ELSE default

\* needle in text
Contains(text, needle) == \E i \in 1..Len(text) : text[i] = needle

\* wants_stream = body.get("stream") or "text/event-stream" in accept
WantsStreamFlagOnly(body, headers) == Truthy(PyGet(body, "stream"))

WantsStream(body, headers) ==
    \/ Truthy(PyGet(body, "stream"))
    \/ Contains(HeaderGet(headers, "accept", <<>>), EventStream)

\* {k: v for k, v in request.headers.items() if k.lower() not in excluded}
RECURSIVE CopyHeaders(_, _)
CopyHeaders(items, acc) ==
    IF items = <<>> THEN acc
    ELSE CopyHeaders(Tail(items),
                     IF Lower(Head(items).key) \notin excluded
                     THEN DictSet(acc, Head(items).key, Head(items).val)
                     ELSE acc)

\* forward_headers, with forward_headers["authorization"] set last.
ForwardHeaders(headers, meta) ==
    DictSet(CopyHeaders(headers, <<>>), "authorization",
            <<ForwardAuth(HeaderGet(headers, "authorization", <<"none">>),
                          meta)>>)

\* How proxy() ends: an HTTPException, another exception, or the Response.
NoAnswer == [kind |-> "-", status |-> 0, exc |-> "-"]

HTTPError(status) == [kind |-> "HTTPException", status |-> status, exc |-> "-"]

Raised(exc) == [kind |-> "raise", status |-> 0, exc |-> exc]

Returned(status) == [kind |-> "Response", status |-> status, exc |-> "-"]

\* The statuses an upstream answers with.
UpstreamStatuses == {200, 500}

\* What the HTTP client raises: the connection is refused, the upstream is
\* too slow, the response is malformed. The streaming client has timeout=None.
TransportExcs(path) ==
    IF path = "stream" THEN {"ConnectError", "RemoteProtocolError"}
    ELSE {"ConnectError", "ReadTimeout", "RemoteProtocolError"}

\* URLs and paths are kept as the pieces they are read by. The route of
\* proxy() is '/v1/{remainder:path}'.
RoutePrefix == <<"/v1", "/">>

\* The endpoint strings of the registry: A as the static configuration writes
\* it (scheme://host:port), B as _discover builds it
\* (f'{protocol}://{pod_ip}:{apiport}{apibase}/').
EndpointUrl(e) ==
    IF e = "A" THEN <<"http://A:8000">> ELSE <<"http://B:8000", "/v1", "/">>

\* request.method, request.url.path and request.query_params of the POSTs
\* that arrive.
NoLine == [method |-> "-", path |-> <<>>, query |-> "-"]

RequestLines ==
    {[method |-> "POST", path |-> RoutePrefix \o <<"chat/completions">>,
      query |-> ""],
     [method |-> "POST", path |-> RoutePrefix \o <<"completions">>,
      query |-> "n=1"]}

\* upstream_url = f"{endpoint}{request.url.path}"
UpstreamUrl(endpoint, path) == endpoint \o path

\* What client.request / client.stream is called with.
NoSend == [method |-> "-", url |-> <<>>, params |-> "-"]

SendTo(endpoint, line) ==
    [method |-> line.method, url |-> UpstreamUrl(endpoint, line.path),
     params |-> line.query]

IdleRoute ==
    [pc |-> "idle", raw |-> [kind |-> "text", value |-> PyNone],
     headers |-> <<>>, line |-> NoLine, model |-> "-", path |-> "-",
     chosen |-> 0, sent |-> 0, ep |-> "-", out |-> <<>>, up |-> NoSend,
     logged |-> FALSE, failed |-> "-", answer |-> NoAnswer]

\* except Exception as e: logger.exception(...); raise
LoggedRaise(r, answer) == [r EXCEPT !.pc = "done", !.logged = TRUE, !.answer = answer]

\* The upstream request fails inside proxy_request / proxy_request_stream:
\* the exception leaves them and is caught by proxy().
AfterFailureRetry(r, exc) == [r EXCEPT !.pc = "choose", !.failed = exc]

AfterFailure(r, exc) == LoggedRaise([r EXCEPT !.failed = exc], Raised(exc))

\* _load_config: one or two backends of m1.
RouteConfigs ==
    {<<[endpoint |-> "A", apikey |-> "skA", models |-> <<"m1">>]>>,
     <<[endpoint |-> "A", apikey |-> "skA", models |-> <<"m1">>],
       [endpoint |-> "B", apikey |-> "skB", models |-> <<"m1">>]>>}

InitRoute ==
    /\ \E cfg \in RouteConfigs : instances = LoadInstances(<<>>, cfg)
    /\ picks = [m \in Models |-> <<>>]
    /\ touch = [m \in Models |-> NoTouch]
    /\ last = NoCall
    /\ InitProgram
    /\ gate = NoGate
    /\ relay = NoRelay
    /\ disc = NoDisc
    /\ route = IdleRoute

RouteStep(r) ==
    /\ route' = r
    /\ UNCHANGED <<touch, last, lock, running, pc, rq, epmap, fresh, todoRmv,
                   todoAdd, gate, relay, disc>>

Between == route.pc \in {"idle", "done"}

\* A POST arrives: raw_body = await request.body()
RouteArrive(raw, headers) ==
    /\ Between
    /\ \E line \in RequestLines :
           RouteStep([IdleRoute EXCEPT !.pc = "body", !.raw = raw,
                                       !.headers = headers, !.line = line])
    /\ UNCHANGED <<instances, picks>>

\* The dependency of the route, require_auth, raises HTTPException(401):
\* proxy() is not entered.
RouteUnauthorized(headers) ==
    /\ Between
    /\ \E line \in RequestLines :
           RouteStep([IdleRoute EXCEPT !.pc = "done", !.headers = headers,
                                       !.line = line,
                                       !.answer = HTTPError(401)])
    /\ UNCHANGED <<instances, picks>>

\* json.loads raises JSONDecodeError: HTTPException(400), raised before the
\* try of proxy().
RouteBadJson ==
    /\ route.pc = "body"
    /\ JsonLoads(route.raw).exc = "JSONDecodeError"
    /\ RouteStep([route EXCEPT !.pc = "done", !.answer = HTTPError(400)])
    /\ UNCHANGED <<instances, picks>>

\* json.loads raises another exception: nothing catches it.
RouteLoadsRaises ==
    /\ route.pc = "body"
    /\ JsonLoads(route.raw).exc \notin {"none", "JSONDecodeError"}
    /\ RouteStep([route EXCEPT !.pc = "done",
                               !.answer = Raised(JsonLoads(route.raw).exc)])
    /\ UNCHANGED <<instances, picks>>

\* model = body.get("model") on a value that is no dict: AttributeError,
\* which nothing catches.
RouteNotObject ==
    /\ route.pc = "body"
    /\ JsonLoads(route.raw).exc = "none"
    /\ ~HasGet(JsonLoads(route.raw).value)
    /\ RouteStep([route EXCEPT !.pc = "done",
                               !.answer = Raised("AttributeError")])
    /\ UNCHANGED <<instances, picks>>

\* if not model: HTTPException(400)
RouteNoModel ==
    /\ route.pc = "body"
    /\ JsonLoads(route.raw).exc = "none"
    /\ HasGet(JsonLoads(route.raw).value)
    /\ ~Truthy(PyGet(JsonLoads(route.raw).value, "model"))
    /\ RouteStep([route EXCEPT !.pc = "done", !.answer = HTTPError(400)])
    /\ UNCHANGED <<instances, picks>>

\* accept, wants_stream; proxy_request_stream or proxy_request is entered.
RouteDispatch ==
    /\ route.pc = "body"
    /\ JsonLoads(route.raw).exc = "none"
    /\ LET body == JsonLoads(route.raw).value
       IN  /\ HasGet(body)
           /\ Truthy(PyGet(body, "model"))
           /\ RouteStep([route EXCEPT
                  !.pc = "choose",
                  !.model = PyGet(body, "model").v,
                  !.path = IF WantsStream(body, route.headers)
                           THEN "stream" ELSE "buffered"])
    /\ UNCHANGED <<instances, picks>>

\* bucket = self._instances.get(model): the registry after the lookup (a
\* dict.get inserts nothing).
LookupCreates(inst, model) ==
    IF DictHas(inst, model) THEN inst ELSE DictSet(inst, model, NewBucket)

Lookup(inst, model) == inst

\* _choose: the lookup gives None: HTTPException(404), logged by proxy().
RouteUnknown ==
    /\ route.pc = "choose"
    /\ ~DictHas(instances, route.model)
    /\ RouteStep(LoggedRaise(route, HTTPError(404)))
    /\ instances' = Lookup(instances, route.model)
    /\ UNCHANGED picks

\* _choose: bucket.next() raises RuntimeError, logged by proxy().
RouteNextRaises ==
    /\ route.pc = "choose"
    /\ DictHas(instances, route.model)
    /\ RRNextRaises(DictGet(instances, route.model))
    /\ RouteStep(LoggedRaise(route, Raised("RuntimeError")))
    /\ UNCHANGED <<instances, picks>>

\* _choose gives (endpoint, meta); forward_headers is built and the request
\* is handed to the HTTP client: client.request, or client.stream.
RouteChoose ==
    /\ route.pc = "choose"
    /\ DictHas(instances, route.model)
    /\ LET b == DictGet(instances, route.model)
       IN  /\ ~RRNextRaises(b)
           /\ instances' = Advanced(instances, route.model)
           /\ picks' = Remember(picks, route.model, RRNextItem(b).key)
           /\ RouteStep([route EXCEPT
                  !.pc = "upstream",
                  !.chosen = @ + 1,
                  !.sent = @ + 1,
                  !.ep = RRNextItem(b).key,
                  !.out = ForwardHeaders(route.headers, RRNextItem(b).val),
                  !.up = SendTo(EndpointUrl(RRNextItem(b).key), route.line)])

\* The upstream answers: Response, or StreamingResponse, with its status.
RouteResponds(status) ==
    /\ route.pc = "upstream"
    /\ RouteStep([route EXCEPT !.pc = "done", !.answer = Returned(status)])
    /\ UNCHANGED <<instances, picks>>

\* The HTTP client raises.
RouteFails(exc) ==
    /\ route.pc = "upstream"
    /\ exc \in TransportExcs(route.path)
    /\ RouteStep(AfterFailure(route, exc))
    /\ UNCHANGED <<instances, picks>>

\* Between two requests an endpoint is removed from m1.
RouteRemove(endpoint) ==
    /\ Between
    /\ Members(instances, "m1") # {}
    /\ RemoveInstance(endpoint, <<"m1">>)

NextRoute ==
    \/ \E raw \in RawBodies, headers \in HeaderLists : RouteArrive(raw, headers)
    \/ \E headers \in HeaderLists : RouteUnauthorized(headers)
    \/ RouteBadJson
    \/ RouteLoadsRaises
    \/ RouteNotObject
    \/ RouteNoModel
    \/ RouteDispatch
    \/ RouteUnknown
    \/ RouteNextRaises
    \/ RouteChoose
    \/ \E status \in UpstreamStatuses : RouteResponds(status)
    \/ \E exc \in TransportExcs("buffered") : RouteFails(exc)
    \/ \E e \in {"A", "B"} : RouteRemove(e)

SpecRoute == InitRoute /\ [][NextRoute]_vars

\* ================================================================== claims
Listed == SeqRange(ListModelsF(instances))

Selected == last.op \in {"pick_endpoint", "_choose"}

\* C1: a model is a key of the registry, and is listed by list_models, if and
\* only if its bucket holds at least one endpoint: no bucket is left empty.
C1_KeyIffNonEmptyBucket ==
    /\ \A m \in DictKeys(instances) : Members(instances, m) # {}
    /\ Listed = {m \in Models : Members(instances, m) # {}}

\* The position of endpoint e in the insertion order of bucket b.
PosIn(b, e) == CHOOSE i \in 1..Len(b.data) : b.data[i].key = e

\* The endpoint following e in the insertion order of b, taken cyclically.
SuccIn(b, e) == b.data[(PosIn(b, e) % Len(b.data)) + 1].key

\* C2: for a bucket of N endpoints, the selections made since add or rmv last
\* ran on it follow the insertion order cyclically: each selection is the
\* successor of the one before, any N consecutive selections are the N
\* endpoints once each, and selection i+N is selection i.
C2_RoundRobinRotation ==
    \A m \in Models :
        picks[m] # <<>> =>
            /\ DictHas(instances, m)
            /\ LET b == DictGet(instances, m)
                   N == Len(b.data)
                   p == picks[m]
               IN  /\ N > 0
                   /\ \A i \in 1..Len(p) :
                          /\ p[i] \in DictKeys(b.data)
                          /\ i + 1 <= Len(p) => p[i + 1] = SuccIn(b, p[i])
                          /\ i + N <= Len(p) => p[i + N] = p[i]
                          /\ i + N - 1 <= Len(p) =>
                                 {p[j] : j \in i..(i + N - 1)} = DictKeys(b.data)

\* Three endpoints in m1's bucket and N + 1 = 4 selections made over them.
C2_Witness ==
    /\ DictHas(instances, "m1")
    /\ Len(DictGet(instances, "m1").data) = 3
    /\ Len(picks["m1"]) >= 4

\* C5: an endpoint removed from a model's bucket is not handed out again until
\* it is added again. Every endpoint handed out is a member of the bucket at
\* that time; after rmv(e) on the bucket of m, e is not a member and m is
\* still listed; and an endpoint becomes a member only through an add of it.
C5_RemovedEndpointNotSelected ==
    /\ [](/\ \A m \in Models : \A i \in 1..Len(picks[m]) :
                 picks[m][i] \in Members(instances, m)
          /\ (Selected /\ last.exc = "none") =>
                 last.ret \in Members(instances, last.model)
          /\ \A m \in Models : touch[m].op = "rmv" =>
                 /\ touch[m].endpoint \notin Members(instances, m)
                 /\ m \in Listed)
    /\ [][\A m \in Models : \A e \in Endpoints :
              (e \notin Members(instances, m) /\ e \in Members(instances', m))
                  => touch'[m] = [op |-> "add", endpoint |-> e]]_vars

\* A was removed from m1's bucket, B remains, and two selections followed.
C5_Witness ==
    /\ touch["m1"] = [op |-> "rmv", endpoint |-> "A"]
    /\ Members(instances, "m1") = {"B"}
    /\ picks["m1"] = <<"B", "B">>
    /\ Selected /\ last.model = "m1" /\ last.ret = "B"

\* C6: selecting for a model with no endpoint fails with the unknown-model
\* error (404 from _choose, KeyError from pick_endpoint), whether the bucket
\* is absent or empty.
C6_EmptyBucketIsUnknownModel ==
    (Selected /\ Members(instances, last.model) = {}) =>
        last.exc = IF last.op = "_choose" THEN "HTTP404" ELSE "KeyError"

\* C7: after remove_instance(endpoint, models=None) the endpoint is in no
\* bucket and no bucket is left empty.
C7_RemoveEverywhere ==
    last.op = "remove_instance_none" =>
        /\ \A m \in Models : last.endpoint \notin Members(instances, m)
        /\ \A m \in DictKeys(instances) : Members(instances, m) # {}

\* The requests whose outbound request is with the HTTP client.
Upstream == {t \in Reqs : pc[t] = "upstream"}

\* C3: with requests in flight concurrently, the endpoints handed out for a
\* model, in the order the selections happen, follow the rotation: within
\* every round of N selections none is skipped and none is handed out twice.
C3_ConcurrentSelectionsRotate ==
    \A m \in Models :
        LET p == picks[m]
            eps == IF DictHas(instances, m)
                   THEN BucketEndpoints(DictGet(instances, m)) ELSE <<>>
            N == Len(eps)
        IN  \A i \in 1..Len(p) :
                /\ N > 0
                /\ \E k \in 1..N :
                       \A j \in i..Len(p) : p[j] = eps[((k + j - i - 1) % N) + 1]
                /\ \A j \in (i + 1)..Len(p) : (j < i + N) => p[j] # p[i]

\* Both handlers await their upstream at once, each with another endpoint of
\* the same bucket.
C3_Witness ==
    /\ Upstream = Reqs
    /\ rq["r1"].ep # rq["r2"].ep
    /\ {rq["r1"].ep, rq["r2"].ep} = Members(instances, "m1")
    /\ Len(picks["m1"]) >= 3

\* C4 as stated: the outbound Authorization header is 'Bearer ' and the key
\* stored for the selected endpoint, and the value of the inbound
\* Authorization header is never sent upstream.
C4_InboundAuthNeverSent ==
    \A t \in Upstream :
        /\ rq[t].fwd = "Bearer " \o rq[t].key
        /\ rq[t].fwd # rq[t].inauth

\* C4 as amended: the outbound Authorization header is 'Bearer ' and the key
\* stored for the selected endpoint on both paths; it equals the inbound
\* header only when the caller sent exactly that value.
C4_AuthHeaderIsStoredKey ==
    \A t \in Upstream :
        /\ rq[t].key # "-"
        /\ rq[t].fwd = "Bearer " \o rq[t].key
        /\ rq[t].fwd = rq[t].inauth => rq[t].inauth = "Bearer " \o rq[t].key

\* A buffered and a streamed request are upstream, each sent with a caller's
\* token inbound and the stored key outbound.
C4_Witness ==
    /\ Upstream = Reqs
    /\ rq["r1"].stream /\ ~rq["r2"].stream
    /\ \A t \in Reqs : rq[t].inauth = "Bearer tok"
    /\ rq["r1"].fwd = "Bearer skA" /\ rq["r2"].fwd = "Bearer EMPTY"

\* The pass has issued all its calls; self._epmap is still the old snapshot.
PassApplied ==
    pc["rec"] = "apply" /\ todoRmv = NoTodo /\ todoAdd = NoTodo

\* C8: when a reconciliation pass has applied its calls, every pair of the
\* fresh snapshot is registered and every pair of the previous snapshot that
\* is not in the fresh one is not; between passes every pair of the stored
\* snapshot is registered.
C8_PassReconcilesRegistry ==
    /\ PassApplied =>
           \A m \in Models :
               /\ fresh[m] \subseteq Members(instances, m)
               /\ (epmap[m] \ fresh[m]) \cap Members(instances, m) = {}
    /\ pc["rec"] = "sleep" =>
           \A m \in Models : epmap[m] \subseteq Members(instances, m)

\* Cycle 1 reported {m1: {A}}, cycle 2 reports {m1: {B}}: m1 is served by B.
C8_Witness ==
    /\ PassApplied
    /\ epmap["m1"] = {"A"} /\ fresh["m1"] = {"B"}
    /\ Members(instances, "m1") = {"B"}

\* C9: a task that is about to read or write the registry (the lookup, the
\* membership change, the cursor advance of next()) holds the lock.
C9_RegistryAccessUnderLock ==
    \A t \in Tasks : pc[t] \in {"lookup", "next", "locked"} => lock = t

\* C10: a task that is suspended holds no lock, so the lock is free whenever
\* the loop is between tasks; a request awaiting its upstream works with the
\* pair it resolved.
C10_NoLockAcrossSuspension ==
    /\ \A t \in Tasks : pc[t] \in {"idle", "body", "upstream", "sleep"} => lock # t
    /\ running = "none" => lock = "free"
    /\ \A t \in Upstream : rq[t].ep \in Endpoints /\ rq[t].key # "-"

\* One request awaits its upstream while the reconciler holds the lock.
C10_Witness ==
    /\ pc["r1"] = "upstream"
    /\ lock = "rec"

\* C11: when the downstream caller has gone away while a streaming relay is
\* in progress, the upstream response and the HTTP client opened for that
\* request are eventually closed.
C11_DisconnectClosesUpstream ==
    /\ (~relay["r1"].down /\ relay["r1"].pc \in InRelay)
           ~> (relay["r1"].stack = <<>>)
    /\ (~relay["r2"].down /\ relay["r2"].pc \in InRelay)
           ~> (relay["r2"].stack = <<>>)

\* A relay that lost its caller after a chunk was relayed has finished with
\* both contexts closed.
C11_Witness ==
    \E t \in Reqs :
        /\ relay[t].gone = "relay"
        /\ relay[t].exc \in {"Cancelled", "GeneratorExit"}
        /\ relay[t].pc = "closed"
        /\ relay[t].stack = <<>>

\* The models for which snapshot a holds endpoint e.
Holding(a, e) == {m \in DictKeys(a) : e \in DictGet(a, m)}

CycleBegins == disc.pc = "update" /\ disc.sel = 1 /\ disc.fresh = <<>>

PassStored == disc.pc = "sleep" /\ Ended(disc) = "stored"

\* C12: when the cluster query of a selector raises during a pass, the pass
\* goes on with the next selector, that selector contributes no endpoint to
\* the fresh snapshot, and once the pass is over every endpoint the other
\* selectors yielded is in the fresh snapshot and registered for its models,
\* and the stored snapshot is the fresh one.
C12_FailedSelectorIsSkipped ==
    /\ [](PassStored /\ disc.failed # {} =>
            /\ \A i \in disc.failed : disc.got[i] = {}
            /\ \A i \in (1..Len(Selectors)) \ disc.failed :
                   \A e \in disc.got[i] : Holding(disc.fresh, e) # {}
            /\ \A m \in DictKeys(disc.fresh) :
                   DictGet(disc.fresh, m) \subseteq Members(instances, m)
            /\ disc.epmap = disc.fresh)
    /\ [][disc.failed' # disc.failed /\ disc.failed' # {} =>
            /\ disc'.pc = "update"
            /\ disc'.sel = disc.sel + 1
            /\ disc'.fresh = disc.fresh
            /\ disc'.got = disc.got
            /\ instances' = instances]_vars

\* The query of s1 raised, s2 yielded B, and the pass registered B and stored
\* the snapshot.
C12_Witness ==
    /\ PassStored
    /\ disc.failed = {1}
    /\ disc.got[2] = {"B"}
    /\ "B" \in Members(instances, "m1")
    /\ disc.epmap = disc.fresh

\* C13: the periodic task never stops: a new cycle begins again and again,
\* in particular after a cycle in which update raised.
C13_CycleAlwaysRestarts ==
    /\ []<>CycleBegins
    /\ (disc.exc # "none") ~> CycleBegins
    /\ [](disc.pc # "ended")

\* A cycle begins after the one before ended with an exception.
C13_Witness == CycleBegins /\ disc.prev = "TypeError"

\* C14: within a pass every remove_instance call is issued before any
\* add_instance call, and the stored snapshot is replaced only after every
\* call of rmv and of add has been issued.
C14_RemovalsBeforeAdditionsBeforeStore ==
    /\ [](\A i, j \in 1..Len(disc.log) :
            /\ disc.log[i].op = "add" /\ disc.log[j].op = "rmv" => j < i
            /\ disc.log[i].op = "store" /\ i # j => j < i)
    /\ [][disc'.epmap # disc.epmap \/ (PassStored' /\ ~PassStored) =>
            /\ {c \in SeqRange(disc.log) : c.op = "rmv"} =
                   {[op |-> "rmv", ep |-> disc.rmv[k].key,
                     models |-> disc.rmv[k].val] : k \in 1..Len(disc.rmv)}
            /\ {c \in SeqRange(disc.log) : c.op = "add"} =
                   {[op |-> "add", ep |-> disc.add[k].key,
                     models |-> disc.add[k].val] : k \in 1..Len(disc.add)}
            /\ disc'.epmap = disc.fresh]_vars

\* A pass that removed one endpoint, added another and then stored.
C14_Witness ==
    /\ PassStored
    /\ Len(disc.log) = 3
    /\ disc.log[1].op = "rmv" /\ disc.log[2].op = "add"
    /\ disc.log[3].op = "store"

\* d is the map from each endpoint e to the list of the models m with e in
\* a[m] and not in b[m], without an entry for an endpoint with no such model.
IsDiffOf(d, a, b) ==
    /\ Len(d) = Cardinality(DictKeys(d))
    /\ DictKeys(d) = {e \in Endpoints : Holding(a, e) \ Holding(b, e) # {}}
    /\ \A k \in 1..Len(d) :
           /\ SeqRange(d[k].val) = Holding(a, d[k].key) \ Holding(b, d[k].key)
           /\ Len(d[k].val) = Cardinality(SeqRange(d[k].val))

SameMap(a, b) ==
    /\ DictKeys(a) = DictKeys(b)
    /\ \A m \in DictKeys(a) : DictGet(a, m) = DictGet(b, m)

\* C15: the add and rmv of a pass are exactly the per-endpoint differences of
\* the fresh and the stored snapshot, both empty when the snapshots are
\* equal, and a pass issues at most one remove_instance and at most one
\* add_instance call per endpoint.
C15_EpDiffGroupsByEndpoint ==
    /\ disc.pc = "apply" =>
           /\ IsDiffOf(disc.add, disc.fresh, disc.epmap)
           /\ IsDiffOf(disc.rmv, disc.epmap, disc.fresh)
           /\ SameMap(disc.fresh, disc.epmap) =>
                  disc.add = <<>> /\ disc.rmv = <<>>
    /\ \A i, j \in 1..Len(disc.log) :
           /\ disc.log[i].op = disc.log[j].op
           /\ disc.log[i].ep = disc.log[j].ep
           => i = j

\* One endpoint gained two models in a pass and one add_instance call was
\* issued for it.
C15_Witness ==
    /\ disc.pc = "apply"
    /\ \E k \in 1..Len(disc.add) : Len(disc.add[k].val) = 2
    /\ \E i \in 1..Len(disc.log) :
           disc.log[i].op = "add" /\ Len(disc.log[i].models) = 2

\* p is a prefix of s.
IsPrefix(p, s) == Len(p) <= Len(s) /\ \A i \in 1..Len(p) : s[i] = p[i]

\* A request has been through the Auth Gate of a proxy with a key configured.
Gated == gate.key # "none" /\ gate.res # NoResult

BearerSent == gate.header.present /\ gate.header.scheme = "Bearer "

\* The token presented is, undamaged, one minted under the configured key.
OwnToken ==
    /\ Gated /\ BearerSent
    /\ gate.minted # NoMint /\ gate.minted.key = gate.key
    /\ gate.damage = "none"

C17_OtherPrefixRejected ==
    OwnToken /\ gate.minted.prefix # gate.prefix => gate.res.status = 401

\* C17 as amended: such a token is rejected with 401 exactly when the minted
\* payload (prefix then username) does not start with the configured prefix;
\* it is rejected for every username when neither prefix is a prefix of the
\* other, and when it is accepted the identity is the payload after the
\* configured prefix.
C17_PrefixCheckedOnPayload ==
    OwnToken =>
        LET payload == gate.minted.prefix \o gate.minted.username
        IN  /\ gate.res.status = 401 <=> ~IsPrefix(gate.prefix, payload)
            /\ gate.res.status \in {200, 401}
            /\ /\ ~IsPrefix(gate.prefix, gate.minted.prefix)
               /\ ~IsPrefix(gate.minted.prefix, gate.prefix)
               => gate.res.status = 401
            /\ gate.res.status = 200 =>
                   gate.prefix \o gate.res.username = payload

\* A token minted with "X" was rejected by a proxy configured with "B...".
C17_Witness ==
    /\ OwnToken
    /\ gate.minted.prefix = <<"X">>
    /\ gate.res.status = 401 /\ gate.res.detail = "Invalid API key"

\* C18: a token minted for username U under the configured key and prefix,
\* presented as 'Bearer <token>', is accepted with identity U.
C18_TokenRoundTrip ==
    OwnToken /\ gate.minted.prefix = gate.prefix =>
        /\ gate.res.status = 200
        /\ gate.res.username = gate.minted.username
        /\ gate.pc = "handler" \/ gate.served

\* The token of "Oa" under prefix "BO" was accepted as "Oa" and served.
C18_Witness ==
    /\ OwnToken
    /\ gate.prefix = <<"B", "O">> /\ gate.minted.prefix = gate.prefix
    /\ gate.minted.username = <<"O", "a">>
    /\ gate.res.username = <<"O", "a">>
    /\ gate.served

\* The token presented cannot be decoded under the configured key.
Undecodable ==
    \/ gate.minted = NoMint
    \/ gate.damage # "none"
    \/ gate.minted.key # gate.key

\* C19: whichever way decoding the presented token fails (not base64url, no
\* longer than the nonce, wrong key, a flipped ciphertext or tag byte, a
\* truncated tag), the caller gets the same answer: 401 "Invalid API key".
C19_DecodeFailuresAlike ==
    Gated /\ BearerSent /\ Undecodable =>
        /\ DecryptToken(gate.header.rest, gate.key).raised # "none"
        /\ gate.res = [status |-> 401, detail |-> "Invalid API key",
                       username |-> <<>>]

\* A token with its last tag byte cut off was answered 401.
C19_Witness ==
    /\ Gated /\ BearerSent
    /\ gate.damage = "cut_tag" /\ gate.minted.key = gate.key
    /\ gate.res.status = 401

\* C20: without an auth key every request passes the Auth Gate, whatever its
\* Authorization header, and is tagged 'ANONYMOUS'.
C20_NoKeyMeansAnonymous ==
    gate.key = "none" /\ gate.res # NoResult =>
        /\ gate.res.status = 200
        /\ gate.res.username = Anonymous
        /\ gate.pc = "handler" \/ gate.served

\* A request carrying a damaged token was served as ANONYMOUS.
C20_Witness ==
    /\ gate.key = "none"
    /\ BearerSent /\ gate.damage = "flip_tag"
    /\ gate.res.username = Anonymous
    /\ gate.served

\* ------------------------------------------------------ claims on proxy()
\* The handler has answered the request it holds.
Answered == route.pc = "done"

\* The body is no JSON text, or JSON that is no object, or an object without
\* "model", or with a null or empty one.
NoUsableModel(raw) ==
    \/ raw.kind # "json"
    \/ raw.value.type # "dict"
    \/ ~DictHas(raw.value.fields, "model")
    \/ DictGet(raw.value.fields, "model") \in {PyNone, JVal("str", "")}

\* The body has a truthy "stream"; a header line Accept has the media type.
StreamFlag(raw) ==
    \E i \in 1..Len(raw.value.fields) :
        /\ raw.value.fields[i].key = "stream"
        /\ Truthy(raw.value.fields[i].val)

AcceptsEventStream(headers) ==
    \E i \in 1..Len(headers) :
        /\ headers[i].key = "accept"
        /\ \E j \in 1..Len(headers[i].val) : headers[i].val[j] = EventStream

\* C21: a body that is not valid JSON, or that is JSON without a usable model
\* (an object without 'model' or with an empty or null one, or JSON that is
\* no object) is answered 400 and no upstream request is issued.
C21_UnusableBodyIs400 ==
    Answered /\ NoUsableModel(route.raw) =>
        /\ route.answer = HTTPError(400)
        /\ route.sent = 0

\* C22: a request that names a model no backend is registered for is answered
\* 404 on the buffered and on the streaming path, and no upstream connection
\* is opened for it.
C22_UnservedModelIs404 ==
    [][(route.pc = "choose" /\ Members(instances, route.model) = {}) =>
           /\ route'.answer = HTTPError(404)
           /\ route'.sent = 0]_vars

\* C23: a transport failure on either path is logged and reaches the caller
\* as a 502 failure.
C23_TransportFailureIs502 ==
    route.pc # "-" /\ route.failed # "-" =>
        /\ route.logged
        /\ route.answer = HTTPError(502)

\* C24: a request makes the selector advance at most once, exactly once when
\* it is forwarded, and at most one upstream request is issued for it; when
\* the upstream request fails nothing else is selected or sent and the
\* failure is what the caller gets.
C24_OneSelectionOneRequest ==
    /\ [](route.pc # "-" =>
            /\ route.chosen <= 1 /\ route.sent <= 1
            /\ route.sent = route.chosen
            /\ route.answer.kind = "Response" => route.chosen = 1
            /\ route.failed # "-" =>
                   /\ route.pc = "done"
                   /\ route.answer = Raised(route.failed))
    /\ [][/\ route.pc # "-" /\ route'.chosen > route.chosen =>
               LET b == DictGet(instances, route.model)
               IN  /\ route'.ep = RRNextItem(b).key
                   /\ DictGet(instances', route.model).cycler.pos
                        = (b.cycler.pos + 1) % Len(b.data)
           /\ route.pc = "upstream" =>
               /\ instances' = instances
               /\ route'.sent = route.sent
               /\ route'.pc = "done"]_vars

\* A request sent to A failed with a refused connection while B was there to
\* take it: the caller got the failure.
C24_Witness ==
    /\ Answered /\ route.failed = "ConnectError"
    /\ route.ep = "A" /\ route.chosen = 1 /\ route.sent = 1
    /\ Members(instances, "m1") = {"A", "B"}

\* C25: a request takes the streaming path exactly when its body has a truthy
\* 'stream' or its Accept header contains 'text/event-stream', and the
\* buffered path otherwise.
C25_StreamIffFlagOrAccept ==
    route.pc # "-" /\ route.path # "-" =>
        /\ route.path \in {"stream", "buffered"}
        /\ route.path = "stream" <=>
               StreamFlag(route.raw) \/ AcceptsEventStream(route.headers)

\* A request with "stream": false and an Accept of text/event-stream was
\* answered on the streaming path.
C25_Witness ==
    /\ Answered /\ route.answer = Returned(200)
    /\ route.path = "stream"
    /\ PyGet(route.raw.value, "stream") = JVal("bool", "false")
    /\ AcceptsEventStream(route.headers)

\* C27: the outbound request carries every inbound header whose lower-cased
\* name is not in the exclusion set, with its value (authorization excepted),
\* and none of the inbound headers of that set.
C27_EveryOtherHeaderForwarded ==
    route.pc # "-" /\ route.sent > 0 =>
        \A i \in 1..Len(route.headers) :
            LET h == route.headers[i]
            IN  IF Lower(h.key) \in excluded
                THEN \A j \in 1..Len(route.out) : route.out[j].key # h.key
                ELSE \/ Lower(h.key) = "authorization"
                     \/ \E j \in 1..Len(route.out) : route.out[j] = h

\* ------------------------------------------------------ claims on aiter()
\* The relay of t ran to the end of the upstream body with the caller there.
RanToEnd(t) ==
    /\ relay[t].pc \in {"closing", "closed"}
    /\ relay[t].exc = "none"
    /\ relay[t].down

\* C26: on the streaming path with no early termination the chunks delivered
\* to the caller, concatenated in delivery order, are the bytes the upstream
\* produced, in order: empty chunks are dropped and nothing is reordered,
\* duplicated or lost. Until then what was delivered is a prefix of what was
\* produced, and no empty chunk is yielded.
C26_DeliveredIsUpstreamBody ==
    \A t \in Reqs :
        relay[t].pc # "-" =>
            /\ IsPrefix(relay[t].dl, relay[t].up)
            /\ relay[t].pc = "yield" => relay[t].chunk # <<>>
            /\ RanToEnd(t) => relay[t].dl = relay[t].up

\* A body of two chunks of two bytes was relayed to its end.
C26_Witness ==
    /\ RanToEnd("r1")
    /\ relay["r1"].pc = "closed"
    /\ relay["r1"].up = <<1, 2, 3, 4>>
    /\ relay["r1"].dl = <<1, 2, 3, 4>>

\* ------------------------------------------- claims on the registry methods
\* The items of the bucket of m, in order; none when m has no bucket.
Data(inst, m) == IF DictHas(inst, m) THEN DictGet(inst, m).data ELSE <<>>

\* C28: add_instance(e, k, models) is an idempotent upsert on each bucket
\* named: an endpoint already there gets the key k and the bucket keeps its
\* members and their order (no second entry), an absent endpoint becomes the
\* last member in rotation order; the same call made twice leaves the members
\* and keys the first call left. It is stated of every call that can be made
\* on the registry as it stands.
C28_AddIsIdempotentUpsert ==
    \A e \in SpecEndpoints, ms \in ModelLists :
        \A k \in KeyChoices(e) :
            LET once == AddInstanceF(instances, e, k, ms)
                twice == AddInstanceF(once, e, k, ms)
            IN  /\ \A m \in SeqRange(ms) :
                       LET old == Data(instances, m)
                           new == Data(once, m)
                       IN  /\ DictHas(new, e)
                           /\ DictGet(new, e) = [apikey |-> k]
                           /\ DictGet(once, m).cycler.items = new
                           /\ IF DictHas(old, e)
                              THEN /\ Len(new) = Len(old)
                                   /\ \A i \in 1..Len(old) :
                                          /\ new[i].key = old[i].key
                                          /\ old[i].key # e => new[i] = old[i]
                              ELSE new = Append(old, [key |-> e,
                                                      val |-> [apikey |-> k]])
                /\ DictKeys(twice) = DictKeys(once)
                /\ \A m \in Models : Data(twice, m) = Data(once, m)

\* A was added again to m1, with the key EMPTY, after B had joined: it is
\* still the first of the two members.
C28_Witness ==
    /\ last.op = "add_instance"
    /\ touch["m1"] = [op |-> "add", endpoint |-> "A"]
    /\ Data(instances, "m1")
           = <<[key |-> "A", val |-> [apikey |-> "EMPTY"]],
               [key |-> "B", val |-> [apikey |-> "skB"]]>>

\* A step of remove_instance(e, ms) is one that ends a remove_instance call,
\* marks the registered buckets named in ms as removed from with e and leaves
\* the registry that call leaves.
\* C29: remove_instance(endpoint, models) raises nothing; a named model that
\* is not registered gets no bucket, a named bucket the endpoint is absent
\* from keeps its members and keys, and when that is so for every model
\* named no bucket and no listing changes.
C29_RemoveAbsentIsNoOp ==
    [][last'.op = "remove_instance" =>
       \A e \in SpecEndpoints, ms \in ModelLists :
           (/\ touch' = Touched(touch, SeqRange(ms) \cap DictKeys(instances),
                                "rmv", e)
            /\ instances' = RemoveInstanceF(instances, e, ms)) =>
               /\ last'.exc = "none"
               /\ \A m \in SeqRange(ms) :
                      e \notin Members(instances, m) =>
                          /\ DictHas(instances', m) <=> DictHas(instances, m)
                          /\ Data(instances', m) = Data(instances, m)
               /\ (\A m \in SeqRange(ms) : e \notin Members(instances, m)) =>
                      /\ DictKeys(instances') = DictKeys(instances)
                      /\ \A m \in Models :
                             Data(instances', m) = Data(instances, m)
                      /\ ListModelsF(instances') = ListModelsF(instances)]_vars

\* B, which is never a backend of m2, was removed from m2, whose bucket
\* holds A; m1 has no bucket.
C29_Witness ==
    /\ last.op = "remove_instance"
    /\ touch["m2"] = [op |-> "rmv", endpoint |-> "B"]
    /\ Members(instances, "m2") = {"A"}
    /\ ~DictHas(instances, "m1")

JustCalled == disc.log[Len(disc.log)]

\* The model list of a pod: the names of the annotation when a model key is
\* configured and names are given, what the endpoint answers otherwise
\* (nothing when the query fails).
ModelListOf(pod, modelkey) ==
    LET names == SelectSeq(pod.ann, LAMBDA x : x # "")
    IN  IF modelkey # "none" /\ names # <<>> THEN names
        ELSE IF pod.enum = EnumRaises THEN <<>> ELSE pod.enum

Qualifies(pod, modelkey) ==
    /\ pod.phase = "Running"
    /\ pod.annotated
    /\ ModelListOf(pod, modelkey) # <<>>

\* The model query is made for the pod and fails.
QueryFails(pod, modelkey) ==
    /\ pod.phase = "Running"
    /\ pod.annotated
    /\ modelkey = "none" \/ SelectSeq(pod.ann, LAMBDA x : x # "") = <<>>
    /\ pod.enum = EnumRaises

\* No pod listed before the i-th had its model query fail.
ReachedPod(pods, modelkey, i) ==
    \A j \in 1..(i - 1) : ~QueryFails(pods[j], modelkey)

\* C31: every add_instance call of the reconciler stores the key 'EMPTY' for
\* each (model, endpoint) pair it registers, whatever key was stored for the
\* pair before.
C31_ReconcilerStoresPlaceholder ==
    [][(disc'.pc = "apply" /\ disc'.done = disc.done + 1
            /\ JustCalled'.op = "add") =>
           \A m \in SeqRange(JustCalled'.models) :
               /\ JustCalled'.ep \in Members(instances', m)
               /\ DictGet(Data(instances', m), JustCalled'.ep)
                      = [apikey |-> "EMPTY"]]_vars

\* A was configured for m1 with the key skA, then discovered for m1: its key
\* is EMPTY.
C31_Witness ==
    /\ <<"m1", "A", "skA">> \in disc.static
    /\ disc.pc = "apply" /\ disc.done > 0
    /\ JustCalled.op = "add" /\ JustCalled.ep = "A"
    /\ "m1" \in SeqRange(JustCalled.models)
    /\ DictGet(Data(instances, "m1"), "A") = [apikey |-> "EMPTY"]

\* C32: a pod yields an endpoint exactly when it is Running, has annotations
\* and has a non-empty model list (the names of the annotation when a model
\* key is configured and gives a name, the answer of its endpoint
\* otherwise).
C32_PodYieldsIffQualifies ==
    \A s \in 1..Len(Selectors) :
        \A i \in 1..Len(disc.pods[s]) :
            disc.pods[s][i].ep \in disc.got[s]
                <=> Qualifies(disc.pods[s][i], Selectors[s].modelkey)

\* C37: a pair registered by the static configuration that was in no
\* snapshot stays registered with its key through every pass, and a pass
\* removes only pairs of its previous snapshot.
C37_StaticPairsUntouched ==
    /\ [](disc.pc # "-" =>
            \A p \in disc.static :
                <<p[1], p[2]>> \notin disc.seen =>
                    /\ p[2] \in Members(instances, p[1])
                    /\ DictGet(Data(instances, p[1]), p[2]).apikey = p[3])
    /\ [][(disc'.pc = "apply" /\ disc'.done = disc.done + 1
                /\ JustCalled'.op = "rmv") =>
               \A m \in SeqRange(JustCalled'.models) :
                   /\ DictHas(disc.epmap, m)
                   /\ JustCalled'.ep \in DictGet(disc.epmap, m)]_vars

\* A, configured for m1, was discovered for m2 only and then removed from m2:
\* it is still registered for m1 with its key.
C37_Witness ==
    /\ <<"m1", "A", "skA">> \in disc.static
    /\ <<"m1", "A">> \notin disc.seen
    /\ disc.pc = "apply" /\ disc.done > 0
    /\ JustCalled = [op |-> "rmv", ep |-> "A", models |-> <<"m2">>]
    /\ DictGet(Data(instances, "m1"), "A") = [apikey |-> "skA"]

\* C39: when the model query fails for a pod of a selector, the endpoints of
\* the pods listed before it are in the snapshot, the pods listed after it
\* give nothing, the selector does not count as failed and the pass goes on
\* with the next selector.
C39_EnumFailureEndsSelector ==
    disc.pc # "-" =>
    \A s \in 1..Len(Selectors) :
        \A j \in 1..Len(disc.pods[s]) :
            LET pods == disc.pods[s]
                mk == Selectors[s].modelkey
            IN  QueryFails(pods[j], mk) /\ ReachedPod(pods, mk, j) =>
                    /\ disc.got[s]
                           = {pods[i].ep : i \in {i \in 1..(j - 1) :
                                                     Qualifies(pods[i], mk)}}
                    /\ \A i \in 1..(j - 1) :
                           Qualifies(pods[i], mk) =>
                               \A m \in SeqRange(ModelListOf(pods[i], mk)) :
                                   pods[i].ep \in DictGet(disc.fresh, m)
                    /\ s \notin disc.failed
                    /\ disc.sel > s

\* The second selector listed B, A and C, the query of A failed, and the
\* pass went on to apply a snapshot with B and without C.
C39_Witness ==
    /\ disc.pc = "apply"
    /\ Len(disc.pods[2]) = 3
    /\ disc.got[2] = {"B"}
    /\ "B" \in DictGet(disc.fresh, "m1")
    /\ "C" \notin DictGet(disc.fresh, "m1")

\* ----------------------------------------------------- claims on forwarding
\* The part of the inbound path after the route prefix.
PathSuffix(path) == SubSeq(path, Len(RoutePrefix) + 1, Len(path))

\* An endpoint registered in the form scheme://host:port/v1/.
DiscoveryForm(url) ==
    /\ Len(url) > Len(RoutePrefix)
    /\ SubSeq(url, Len(url) - Len(RoutePrefix) + 1, Len(url)) = RoutePrefix

\* C33: the outbound request has the inbound method and query string, and
\* for an endpoint of the form scheme://host:port/v1/ its URL is the endpoint
\* followed by the inbound path suffix, the base path appearing once.
C33_UpstreamUrlJoinsSuffix ==
    route.pc = "upstream" =>
        /\ route.up.method = route.line.method
        /\ route.up.params = route.line.query
        /\ DiscoveryForm(EndpointUrl(route.ep)) =>
               route.up.url
                   = EndpointUrl(route.ep) \o PathSuffix(route.line.path)

\* C34: the 404 of a model without a backend is produced without an error
\* record being logged for the request.
C34_UnknownModelNotLogged ==
    route.pc = "done" /\ route.answer = HTTPError(404) => ~route.logged

\* The answers that reject a request: 401, 400 and 404.
Rejections == {HTTPError(401), HTTPError(400), HTTPError(404)}

\* C38: a request rejected with 401, 400 or 404 has selected no endpoint, and
\* no step of handling a request other than a selection changes the registry
\* or a cursor.
C38_RejectedLeavesRegistry ==
    [][route' # route =>
           /\ route'.pc = "done" /\ route'.answer \in Rejections =>
                  route'.chosen = 0
           /\ route'.chosen = 0 =>
                  instances' = instances /\ picks' = picks]_vars

\* A request for a model without a backend got its 404 while the cursor of
\* m1 stood in the middle of its rotation.
C38_Witness ==
    /\ route.pc = "done" /\ route.answer = HTTPError(404)
    /\ route.chosen = 0
    /\ DictHas(instances, "m1")
    /\ DictGet(instances, "m1").cycler.pos = 1

\* ------------------------------------------------------ claims on rotation
\* C35: after every add and every rmv on a bucket that has members the next
\* selection is its first member in insertion order, and the first selection
\* made after an add or rmv returned that member.
C35_TouchRestartsRotation ==
    DictHas(instances, "m1") =>
        LET b == DictGet(instances, "m1")
        IN  /\ last.op \in {"add_instance", "remove_instance"}
                   /\ b.data # <<>> =>
                       /\ ~RRNextRaises(b)
                       /\ RRNextItem(b) = b.data[1]
            /\ Selected /\ last.exc = "none" /\ Len(picks["m1"]) = 1 =>
                   last.ret = b.data[1].key

\* A was added again while A and another endpoint were members (its key is
\* replaced, no member is new), and the selection after it returned A, the
\* first member.
C35_Witness ==
    /\ touch["m1"] = [op |-> "add", endpoint |-> "A"]
    /\ Len(Data(instances, "m1")) >= 2
    /\ Data(instances, "m1")[1].key = "A"
    /\ Selected /\ last.exc = "none" /\ Len(picks["m1"]) = 1
    /\ last.ret = "A"

\* ----------------------------------------------------- claims on streaming
\* The ways a streaming request is left: aiter() reaches its finally clause,
\* proxy_request_stream raises while opening the upstream, or the response
\* is abandoned with aiter() never started.
ExitPaths == {"closing", "raised", "dropped"}

\* C36: on every exit path of the streaming path the HTTP client created for
\* the request (and the upstream response, if opened) is eventually closed.
C36_ClientClosedOnEveryExit ==
    /\ (relay["r1"].pc \in ExitPaths) ~> (relay["r1"].stack = <<>>)
    /\ (relay["r2"].pc \in ExitPaths) ~> (relay["r2"].stack = <<>>)

\* ------------------------------------------------ claims on default prefix
\* C40: with no auth prefix configured on either side, a token minted by
\* genkey under the shared key is accepted by the proxy and the identity is
\* the minted username.
C40_DefaultPrefixesInteroperate ==
    /\ OwnToken
    /\ gate.prefix = LoadedPrefix(<<>>)
    /\ gate.minted.prefix = GenkeyPrefix(<<>>, <<>>)
    => /\ gate.res.status = 200
       /\ gate.res.username = gate.minted.username
====
